---- MODULE Spec2Model ----
(***************************************************************************)
(* Federated event ingestion of the homeserver: handle_incoming_pdu,       *)
(* handle_outlier_pdu, fetch_and_handle_outliers, fetch_unknown_prev_events*)
(* and upgrade_outlier_to_timeline_pdu (service/rooms/event_handler), the  *)
(* exponential backoff of the ratelimiter maps, and the membership         *)
(* projection update_membership (service/rooms/state_cache).               *)
(*                                                                         *)
(* Times are seconds.  One room, "r1", is known to the server; "r0" is a   *)
(* room id the server has never seen.                                      *)
(***************************************************************************)
EXTENDS Integers, Sequences, FiniteSets, TLC

\* ------------------------------------------------------------------ bounds
MaxCalls == 3
MaxTicks == 1
MaxToggles == 1
MaxTries == 20
MaxOps == 4
MaxProcs == 2
MaxKeyCalls == 2
MaxWalkIds == 4
MaxPrevIds == 3
MaxLimit == 1
MaxListed == 2
MaxRequested == 2

\* program constant: services().globals.max_fetch_prev_events()
max_fetch_prev_events == 100

Tasks == {1, 2}
None == "none"
NoKey == "-"

\* ------------------------------------------------- the events peers can send
\* c, acl, j are in the room's timeline from the start; the others arrive.
InitialEvents == <<"c", "acl", "j">>
IncomingEvents == {"b", "m", "p", "q"}
\* two state events for the same slot that both follow j: b and k
ForkEvents == {"b", "k"}
\* an event with six prev events: m and x1..x5, all messages of alice after j
BatchPrevs == {"x1", "x2", "x3", "x4", "x5"}
\* a second create event for the room, c2, and a message z that names c2, not c,
\* among its auth events; a message y of alice that follows her ban b and names
\* her join among its auth events; a message n of alice that follows the ban b
\* and an event u, sent by a peer to which alice is still joined
EventIds == {"c", "acl", "j", "b", "m", "p", "q", "k", "w", "c2", "z", "y", "u", "n"} \cup BatchPrevs

\* lexical order of the event ids (the sort's last tie-break)
IdSorted == <<"acl", "b", "c", "c2", "j", "k", "m", "n", "p", "q", "u", "w", "x1", "x2", "x3", "x4", "x5", "y", "z">>
IdOrd == [e \in EventIds |-> CHOOSE i \in 1..Len(IdSorted) : IdSorted[i] = e]

Pdu ==
  [e \in EventIds |->
     CASE e = "c"   -> [kind |-> "create", state_key |-> "", sender |-> "admin", membership |-> None,
                        origin_server_ts |-> 1, prev_events |-> <<>>, auth_events |-> <<>>, room_id |-> "r1"]
       [] e = "acl" -> [kind |-> "acl", state_key |-> "", sender |-> "admin", membership |-> None,
                        origin_server_ts |-> 2, prev_events |-> <<"c">>, auth_events |-> <<"c">>, room_id |-> "r1"]
       [] e = "j"   -> [kind |-> "member", state_key |-> "alice", sender |-> "alice", membership |-> "join",
                        origin_server_ts |-> 3, prev_events |-> <<"acl">>, auth_events |-> <<"c">>, room_id |-> "r1"]
       [] e = "p"   -> [kind |-> "pl", state_key |-> "", sender |-> "admin", membership |-> None,
                        origin_server_ts |-> 4, prev_events |-> <<"j">>, auth_events |-> <<"c">>, room_id |-> "r1"]
       [] e = "b"   -> [kind |-> "member", state_key |-> "alice", sender |-> "admin", membership |-> "ban",
                        origin_server_ts |-> 5, prev_events |-> <<"j">>, auth_events |-> <<"c", "j">>, room_id |-> "r1"]
       [] e = "m"   -> [kind |-> "message", state_key |-> NoKey, sender |-> "alice", membership |-> None,
                        origin_server_ts |-> 6, prev_events |-> <<"j">>, auth_events |-> <<"c", "j">>, room_id |-> "r1"]
       [] e = "k"   -> [kind |-> "member", state_key |-> "alice", sender |-> "admin", membership |-> "leave",
                        origin_server_ts |-> 8, prev_events |-> <<"j">>, auth_events |-> <<"c", "j">>, room_id |-> "r1"]
       [] e = "w"   -> [kind |-> "message", state_key |-> NoKey, sender |-> "admin", membership |-> None,
                        origin_server_ts |-> 20, prev_events |-> <<"m", "x1", "x2", "x3", "x4", "x5">>,
                        auth_events |-> <<"c">>, room_id |-> "r1"]
       [] e = "c2"  -> [kind |-> "create", state_key |-> "", sender |-> "admin", membership |-> None,
                        origin_server_ts |-> 1, prev_events |-> <<>>, auth_events |-> <<>>, room_id |-> "r1"]
       [] e = "z"   -> [kind |-> "message", state_key |-> NoKey, sender |-> "admin", membership |-> None,
                        origin_server_ts |-> 9, prev_events |-> <<"j">>, auth_events |-> <<"c2">>, room_id |-> "r1"]
       [] e = "u"   -> [kind |-> "message", state_key |-> NoKey, sender |-> "admin", membership |-> None,
                        origin_server_ts |-> 6, prev_events |-> <<"j">>, auth_events |-> <<"c">>, room_id |-> "r1"]
       [] e = "n"   -> [kind |-> "message", state_key |-> NoKey, sender |-> "alice", membership |-> None,
                        origin_server_ts |-> 8, prev_events |-> <<"b", "u">>, auth_events |-> <<"c", "j">>, room_id |-> "r1"]
       [] e = "y"   -> [kind |-> "message", state_key |-> NoKey, sender |-> "alice", membership |-> None,
                        origin_server_ts |-> 7, prev_events |-> <<"b">>, auth_events |-> <<"c", "j">>, room_id |-> "r1"]
       [] e \in BatchPrevs ->
                       [kind |-> "message", state_key |-> NoKey, sender |-> "alice", membership |-> None,
                        origin_server_ts |-> 10 + (IdOrd[e] - IdOrd["w"]), prev_events |-> <<"j">>,
                        auth_events |-> <<"c", "j">>, room_id |-> "r1"]
       [] OTHER     -> [kind |-> "message", state_key |-> NoKey, sender |-> "admin", membership |-> None,
                        origin_server_ts |-> 7, prev_events |-> <<"p", "m">>, auth_events |-> <<"c", "p">>, room_id |-> "r1"]]

\* what a peer answers to /state_ids for an event: the state before it
StateIdsAt ==
  [e \in EventIds |->
     CASE e = "c" -> <<>>
       [] e = "acl" -> <<"c">>
       [] e = "j" -> <<"c", "acl">>
       [] e = "q" -> <<"c", "acl", "j", "p">>
       [] e = "y" -> <<"c", "acl", "b">>
       [] OTHER -> <<"c", "acl", "j">>]

Origins == {"a.test", "evil.test"}
Rooms == {"r1", "r0"}
\* what the signature verifier makes of a delivered value when the signing key is
\* known ("Malformed": signed, but not deserializable to a PDU)
Forms == {"All", "Signatures", "Invalid", "Malformed"}
FetchResponses == {"fail", "All", "Invalid"}
\* ids a walk can ask a peer for
Fetchable == {"p", "m", "c2", "b", "u"} \cup BatchPrevs

\* the requests peers make: the well-formed one for each event, and each of its
\* single faults
BaseRequest(e) ==
  [origin |-> "a.test", room |-> "r1", event |-> e, form |-> "All", is_timeline |-> TRUE, keys |-> TRUE]
WellFormedRequests == {BaseRequest(e) : e \in IncomingEvents}
ForkRequests == {BaseRequest(e) : e \in ForkEvents}
BatchRequests == {BaseRequest(e) : e \in {"b", "w"}}
Requests ==
  UNION {{BaseRequest(e),
          [BaseRequest(e) EXCEPT !.origin = "evil.test"],
          [BaseRequest(e) EXCEPT !.room = "r0"],
          [BaseRequest(e) EXCEPT !.form = "Signatures"],
          [BaseRequest(e) EXCEPT !.form = "Invalid"],
          [BaseRequest(e) EXCEPT !.form = "Malformed"],
          [BaseRequest(e) EXCEPT !.is_timeline = FALSE],
          [BaseRequest(e) EXCEPT !.keys = FALSE]} : e \in IncomingEvents}

\* calls for an event that is in the timeline already
KnownRequests ==
  {BaseRequest("j"), [BaseRequest("j") EXCEPT !.origin = "evil.test"],
   [BaseRequest("j") EXCEPT !.room = "r0"]}

\* the call for the event that names the wrong create event
WrongCreateRequests == {BaseRequest("z")}

\* the call for the message of a sender banned by its prev event
BannedSenderRequests == {BaseRequest("y")}

\* the call for the message whose prev events are the ban and an unknown event
CoveringRequests == {BaseRequest("n")}

\* the events a walk from e can come to ask for
RECURSIVE AncestorsRec(_)
AncestorsRec(e) ==
  {e} \cup UNION {AncestorsRec(x) : x \in {Pdu[e].prev_events[i] : i \in 1..Len(Pdu[e].prev_events)}
                                          \cup {Pdu[e].auth_events[i] : i \in 1..Len(Pdu[e].auth_events)}}
Ancestors == [e \in EventIds |-> AncestorsRec(e)]

StateKeys == {<<"create", "">>, <<"acl", "">>, <<"member", "alice">>, <<"pl", "">>}
EmptyState == [k \in StateKeys |-> None]
StateGet(st, k) == IF k \in StateKeys THEN st[k] ELSE None
IsStateEvent(e) == Pdu[e].state_key # NoKey
ShortStateKey(e) == <<Pdu[e].kind, Pdu[e].state_key>>
SeqToSet(s) == {s[i] : i \in 1..Len(s)}
\* F of the value of x, with x evaluated once
Let(x, F(_)) == CHOOSE y \in {F(v) : v \in {x}} : TRUE

NoEntry == [time |-> 0, tries |-> 0]
NoHandle == [event |-> None, start |-> 0]
NoResult == [kind |-> None, id |-> 0, err |-> None]
Ok(id) == [kind |-> "ok", id |-> id, err |-> None]
OkNone == [kind |-> "okNone", id |-> 0, err |-> None]
Err(msg) == [kind |-> "err", id |-> 0, err |-> msg]
\* the ErrorKind of the BadRequest errors handle_incoming_pdu makes itself
ErrorKind(msg) ==
  CASE msg = "Room is unknown to this server" -> "NotFound"
    [] msg = "Federation of this room is currently disabled on this server." -> "Forbidden"
    [] msg = "Server was denied by room ACL" -> "Forbidden"
    [] OTHER -> "InvalidParam"
NoInput == [origin |-> None, room |-> None, event |-> None, form |-> None, is_timeline |-> FALSE, keys |-> FALSE]


\* ------------------------------------------------------------------- state
VARIABLES
  timeline,                    \* pduid_pdu in append order; a pdu_id is an index
  outlierpdu,                  \* eventid_outlierpdu: None, "full" or "redacted"
  softfailed,                  \* softfailedeventids
  forward_extremities,         \* roomid_pduleaves
  referenced,                  \* referencedevents
  current_state,               \* the room's current state (roomid_shortstatehash)
  pdu_shortstatehash,          \* events that have a state snapshot
  pdu_state,                   \* the snapshot: state before the event
  bad_event_ratelimiter,       \* globals.bad_event_ratelimiter
  bad_signature_ratelimiter,   \* globals.bad_signature_ratelimiter (one key id)
  signing_keys,                \* the origin's signing key is in the key store
  roomid_federationhandletime, \* globals.roomid_federationhandletime
  roomid_mutex_state,          \* holder of the room's state lock, 0 when free
  disabled,                    \* rooms.metadata.is_disabled
  now,                         \* the clock
  task,                        \* the handle_incoming_pdu invocations
  admitted_verdict,            \* history: verifier's verdict when the event was stored
  calls, toggles,              \* history: how often the bounded inputs happened
  membership, once_joined, account_data, joined_count, last_call, ops,  \* state cache
  probe,                       \* backoff probe
  proc,                        \* lock use: the running operations
  servername_ratelimiter,      \* globals.servername_ratelimiter: origin -> semaphore
  semaphores_made,             \* history: Semaphore::new calls per origin
  kf,                          \* fetch_signing_keys_for_server, source by source
  wk,                          \* fetch_and_handle_outliers: one walk and its replay
  pf,                          \* fetch_unknown_prev_events: one traversal and the promotions
  jk                           \* fetch_join_signing_keys: the two sources, one after the other

hvars == <<timeline, outlierpdu, softfailed, forward_extremities, referenced, current_state,
           pdu_shortstatehash, pdu_state, bad_event_ratelimiter, bad_signature_ratelimiter,
           signing_keys, roomid_federationhandletime, roomid_mutex_state, disabled, now, task,
           admitted_verdict, calls, toggles>>
cvars == <<membership, once_joined, account_data, joined_count, last_call, ops>>
lvars == <<proc, servername_ratelimiter, semaphores_made>>
xvars == <<kf, wk, pf, jk>>
vars == <<hvars, cvars, probe, lvars, xvars>>

\* ----------------------------------------------------- exponential backoff
\* Duration::from_secs(5 * 60) * tries * tries, capped at 60 * 60 * 24
min_elapsed_duration_nocap(tries) == 5 * 60 * tries * tries
min_elapsed_duration(tries) ==
  LET d == 5 * 60 * tries * tries
  IN IF d > 60 * 60 * 24 THEN 60 * 60 * 24 ELSE d

\* if let Some((time, tries)) = ratelimiter.get(id) { time.elapsed() < min_elapsed_duration }
backing_off_weak(entry, t) == entry.tries > 0 /\ (t - entry.time) <= min_elapsed_duration(entry.tries)
backing_off(entry, t) == entry.tries > 0 /\ (t - entry.time) < min_elapsed_duration(entry.tries)

\* hash_map::Entry::Vacant => (now, 1); Occupied => (now, tries + 1)
back_off_reset(entry, t) == [time |-> t, tries |-> 1]
back_off(entry, t) ==
  IF entry.tries = 0 THEN [time |-> t, tries |-> 1] ELSE [time |-> t, tries |-> entry.tries + 1]

\* ----------------------------------------------------------- store lookups
InTimeline(e) == \E i \in 1..Len(timeline) : timeline[i] = e
\* eventid_pduid: the latest index the event was appended at, 0 when absent
get_pdu_id(e) ==
  IF InTimeline(e) THEN CHOOSE i \in 1..Len(timeline) :
                          timeline[i] = e /\ \A k \in (i+1)..Len(timeline) : timeline[k] # e
  ELSE 0
\* get_pdu / get_pdu_json look in the timeline, then in the outliers
get_pdu(db, e) == InTimeline(e) \/ db.outlierpdu[e] # None
first_pdu_in_room == timeline[1]
create_event == current_state[<<"create", "">>]

\* the stores the outlier handling writes, threaded through its helpers
Db == [outlierpdu |-> outlierpdu, admitted |-> admitted_verdict, rl |-> bad_event_ratelimiter,
       sig_rl |-> bad_signature_ratelimiter, signing_keys |-> signing_keys,
       keys |-> FALSE, ran |-> {}]

\* ----------------------------------------------- external library contracts
\* ruma::signatures::verify_event: Err without the key or with a bad signature,
\* Verified::Signatures on a content hash mismatch, Verified::All otherwise
verify_event(keys, form) ==
  IF ~keys \/ form = "Invalid" THEN "Invalid"
  ELSE IF form = "Signatures" THEN "Signatures" ELSE "All"

\* state_res::event_auth::auth_check against a state map: the room's create event
\* is there and the sender is not banned
auth_check_ignores_ban(e, st) == Pdu[e].kind = "create" \/ st[<<"create", "">>] # None
auth_check(e, st) ==
  LET m == StateGet(st, <<"member", Pdu[e].sender>>)
  IN /\ (Pdu[e].kind = "create" \/ st[<<"create", "">>] # None)
     /\ (m = None \/ Pdu[m].membership # "ban")

\* state_res::resolve on two forks: a conflicted slot goes to the later event
Later(x, y) ==
  IF Pdu[x].origin_server_ts > Pdu[y].origin_server_ts
     \/ (Pdu[x].origin_server_ts = Pdu[y].origin_server_ts /\ IdOrd[x] > IdOrd[y])
  THEN x ELSE y
resolve2_second_wins(s1, s2) == [k \in StateKeys |-> IF s2[k] = None THEN s1[k] ELSE s2[k]]
resolve2(s1, s2) ==
  [k \in StateKeys |-> IF s1[k] = None THEN s2[k]
                       ELSE IF s2[k] = None \/ s2[k] = s1[k] THEN s1[k]
                       ELSE Later(s1[k], s2[k])]
RECURSIVE resolve(_)
resolve(forks) ==
  Let(forks, LAMBDA f :
    IF f = <<>> THEN EmptyState
    ELSE IF Len(f) = 1 THEN f[1]
    ELSE resolve(<<resolve2(f[1], f[2])>> \o SubSeq(f, 3, Len(f))))

\* rooms.state.get_auth_events: the current state's entries an event of this
\* kind, sender and state key is authorized by
get_auth_events(e) ==
  [k \in StateKeys |->
     IF \/ k \in {<<"create", "">>, <<"pl", "">>}
        \/ k = <<"member", Pdu[e].sender>>
        \/ (Pdu[e].kind = "member" /\ k = <<"member", Pdu[e].state_key>>)
     THEN current_state[k] ELSE None]

\* rooms.event_handler.acl_check: no acl event allows everybody; the room's acl
\* event allows a.test and denies every other server
acl_allows_all(origin) == TRUE
acl_check(origin) ==
  current_state[<<"acl", "">>] = None \/ origin = "a.test"

\* rooms.metadata.exists: r1 is the room the server is in
metadata_exists_any(room_id) == TRUE
metadata_exists(room_id) == room_id = "r1"

check_room_id(room_id, e) == Pdu[e].room_id = room_id

\* --------------------------------------------------------- handle_outlier_pdu
\* The auth events of e that are stored, as a map by (type, state_key).
AuthEventsFound(db, e) == {a \in SeqToSet(Pdu[e].auth_events) : get_pdu(db, a)}
AuthEventsDuplicate(db, e) ==
  \E x, y \in AuthEventsFound(db, e) : x # y /\ ShortStateKey(x) = ShortStateKey(y)
AuthEventsMap(db, e) ==
  [k \in StateKeys |->
     IF \E a \in AuthEventsFound(db, e) : ShortStateKey(a) = k
     THEN CHOOSE a \in AuthEventsFound(db, e) : ShortStateKey(a) = k
     ELSE None]
\* !matches!(auth_events.get(&(RoomCreate, "")), Some(_) | None): never true
wrong_create_event(db, e) == FALSE

\* Steps 1-3 and 6-7 of handle_outlier_pdu, after the auth events were fetched:
\* verify, redact, deserialize, check against the declared auth events, persist.
\* Gives [ok, err, db].
outlier_store_unverified(db, room_id, e, form) ==
  [ok |-> TRUE, err |-> None,
   db |-> [db EXCEPT !.ran = @ \cup {e},
                     !.outlierpdu[e] = "full",
                     !.admitted[e] = verify_event(db.keys, form)]]
outlier_checks_and_persist(db0, room_id, e, form) ==
  Let(db0, LAMBDA db :
    LET verdict == verify_event(db.keys, form)
        ran == [db EXCEPT !.ran = @ \cup {e}]
        fail(msg) == [ok |-> FALSE, err |-> msg, db |-> ran]
    IN IF verdict = "Invalid" THEN fail("Signature verification failed")
       ELSE IF verdict = "Signatures" /\ get_pdu(db, e)
         THEN fail("Event was redacted and we already knew about it")
       ELSE IF form = "Malformed" THEN fail("Event is not a valid PDU.")
       ELSE IF ~check_room_id(room_id, e) THEN fail("Event has wrong room id")
       ELSE IF \E a \in AuthEventsFound(db, e) : ~check_room_id(room_id, a)
         THEN fail("Event has wrong room id")
       ELSE IF AuthEventsDuplicate(db, e)
         THEN fail("Auth event's type and state_key combination exists multiple times.")
       ELSE IF wrong_create_event(db, e) THEN fail("Incoming event refers to wrong create event.")
       ELSE IF ~auth_check(e, AuthEventsMap(db, e)) THEN fail("Auth check failed")
       ELSE [ok |-> TRUE, err |-> None,
             db |-> [ran EXCEPT !.outlierpdu[e] = IF verdict = "Signatures" THEN "redacted" ELSE "full",
                                !.admitted[e] = verdict]])

\* ------------------------------------------------ fetch_signing_keys_for_server
\* The key fetcher as fetch_required_signing_keys uses it, for the one signing
\* server: backoff on the key id, the key store, then the remote sources.
fetch_signing_keys_for_server(db, remote) ==
  IF backing_off(db.sig_rl, now) THEN [ok |-> FALSE, db |-> db]
  ELSE IF db.signing_keys THEN [ok |-> TRUE, db |-> db]
  ELSE IF remote THEN [ok |-> TRUE, db |-> [db EXCEPT !.signing_keys = TRUE]]
  ELSE [ok |-> FALSE, db |-> [db EXCEPT !.sig_rl = back_off(@, now)]]

\* fetch_required_signing_keys over the fetched events: nothing to do without
\* any; a fetched key set is inserted into the pub_key_map
fetch_required_signing_keys(db, fetched, remote) ==
  IF fetched = {} THEN db
  ELSE Let(fetch_signing_keys_for_server(db, remote),
           LAMBDA r : IF r.ok THEN [r.db EXCEPT !.keys = TRUE] ELSE r.db)

\* --------------------------------------------------- fetch_and_handle_outliers
\* The walk over one requested id: todo_auth_events is a stack, the answers
\* of the origin are resp.  Gives [rev, db]: events_in_reverse_order and the
\* stores.
walk_step_no_backoff(next_id, rev, all, db, resp) ==
  IF next_id \in all \/ get_pdu(db, next_id) THEN [push |-> <<>>, rev |-> rev, all |-> all, db |-> db]
  ELSE IF resp[next_id] = "fail"
    THEN [push |-> <<>>, rev |-> rev, all |-> all, db |-> db]
  ELSE [push |-> Pdu[next_id].auth_events, rev |-> Append(rev, <<next_id, resp[next_id]>>),
        all |-> all \cup {next_id}, db |-> db]
walk_step(next_id, rev, all, db, resp) ==
  IF backing_off(db.rl[next_id], now) \/ next_id \in all \/ get_pdu(db, next_id)
  THEN [push |-> <<>>, rev |-> rev, all |-> all, db |-> db]
  ELSE IF resp[next_id] = "fail"
    THEN [push |-> <<>>, rev |-> rev, all |-> all,
          db |-> [db EXCEPT !.rl[next_id] = back_off(@, now)]]
  ELSE [push |-> Pdu[next_id].auth_events, rev |-> Append(rev, <<next_id, resp[next_id]>>),
        all |-> all \cup {next_id}, db |-> db]

\* w is [todo, rev, all, db]
RECURSIVE walk(_, _)
walk(w0, resp) ==
  Let(w0, LAMBDA w :
    IF w.todo = <<>> THEN [rev |-> w.rev, db |-> w.db]
    ELSE Let(walk_step(w.todo[Len(w.todo)], w.rev, w.all, w.db, resp),
             LAMBDA s : walk([todo |-> SubSeq(w.todo, 1, Len(w.todo) - 1) \o s.push,
                              rev |-> s.rev, all |-> s.all, db |-> s.db], resp)))

\* the first loop: local events are reused, the others are walked; c is
\* [list, db]
RECURSIVE collect(_, _, _)
collect(events, c0, resp) ==
  Let(c0, LAMBDA c :
    IF events = <<>> THEN c
    ELSE LET id == Head(events)
         IN IF get_pdu(c.db, id)
            THEN collect(Tail(events),
                         [c EXCEPT !.list = Append(@, [id |-> id, local |-> TRUE, rev |-> <<>>])], resp)
            ELSE Let(walk([todo |-> <<id>>, rev |-> <<>>, all |-> {}, db |-> c.db], resp),
                     LAMBDA w : collect(Tail(events),
                                        [list |-> Append(c.list, [id |-> id, local |-> FALSE, rev |-> w.rev]),
                                         db |-> w.db], resp)))

\* the replay of one walk, last fetched first: an event in backoff is skipped,
\* a failure of handle_outlier_pdu trips the ratelimiter
replay_one_no_backoff(room_id, id, x, st) ==
  Let(outlier_checks_and_persist(st.db, room_id, x[1], x[2]), LAMBDA r :
    IF r.ok THEN [pdus |-> IF x[1] = id THEN Append(st.pdus, [id |-> id, json |-> TRUE]) ELSE st.pdus,
                  db |-> r.db]
    ELSE [pdus |-> st.pdus, db |-> r.db])
replay_one(room_id, id, x, st) ==
  IF backing_off(st.db.rl[x[1]], now) THEN st
  ELSE Let(outlier_checks_and_persist(st.db, room_id, x[1], x[2]), LAMBDA r :
         IF r.ok THEN [pdus |-> IF x[1] = id THEN Append(st.pdus, [id |-> id, json |-> TRUE]) ELSE st.pdus,
                       db |-> r.db]
         ELSE [pdus |-> st.pdus, db |-> [r.db EXCEPT !.rl[x[1]] = back_off(@, now)]])

RECURSIVE replay(_, _, _, _, _)
replay(room_id, id, rev, i, st0) ==
  Let(st0, LAMBDA st :
    IF i = 0 THEN st ELSE replay(room_id, id, rev, i - 1, replay_one(room_id, id, rev[i], st)))

RECURSIVE replay_all(_, _, _)
replay_all(room_id, list, st0) ==
  Let(st0, LAMBDA st :
    IF list = <<>> THEN st
    ELSE LET h == Head(list)
             st1 == IF h.local THEN [st EXCEPT !.pdus = Append(@, [id |-> h.id, json |-> FALSE])] ELSE st
         IN replay_all(room_id, Tail(list), replay(room_id, h.id, h.rev, Len(h.rev), st1)))

\* Gives [pdus, db]; a pdu carries json when it was fetched and handled here.
fetch_and_handle_outliers(db, room_id, events, resp, remote) ==
  Let(collect(events, [list |-> <<>>, db |-> db], resp), LAMBDA c :
    LET fetched == UNION {{c.list[i].rev[k][1] : k \in 1..Len(c.list[i].rev)} : i \in 1..Len(c.list)}
    IN replay_all(room_id, c.list,
                  [pdus |-> <<>>, db |-> fetch_required_signing_keys(c.db, fetched, remote)]))

\* handle_outlier_pdu: with auth_events_known = false the declared auth events
\* are fetched first; their failures do not stop the event (step 5 is not applied)
handle_outlier_pdu(db, room_id, e, form, auth_events_known, resp, remote) ==
  LET verdict == verify_event(db.keys, form)
  IN IF auth_events_known \/ verdict = "Invalid" \/ form = "Malformed"
        \/ (verdict = "Signatures" /\ get_pdu(db, e)) \/ ~check_room_id(room_id, e)
     THEN outlier_checks_and_persist(db, room_id, e, form)
     ELSE outlier_checks_and_persist(
            fetch_and_handle_outliers(db, room_id, Pdu[e].auth_events, resp, remote).db,
            room_id, e, form)

\* --------------------------------------------------- fetch_unknown_prev_events
\* state_res::lexicographical_topological_sort with the key (0, origin_server_ts
\* of the events that have info, else 0), ties by event id: a node is emitted
\* once all its edges are
SortKeyLess(info, x, y) ==
  LET tx == IF x \in info THEN Pdu[x].origin_server_ts ELSE 0
      ty == IF y \in info THEN Pdu[y].origin_server_ts ELSE 0
  IN tx < ty \/ (tx = ty /\ IdOrd[x] < IdOrd[y])
RECURSIVE lexicographical_topological_sort(_, _, _, _)
lexicographical_topological_sort(keys, edges, info, out0) ==
  Let(out0, LAMBDA out :
    LET done == SeqToSet(out)
        ready == {n \in keys \ done : edges[n] \subseteq done}
    IN IF ready = {} THEN out
       ELSE LET n == CHOOSE x \in ready : \A y \in ready \ {x} : SortKeyLess(info, x, y)
            IN lexicographical_topological_sort(keys, edges, info, Append(out, n)))

\* the prev events of p that are pushed: those the graph does not hold yet
RECURSIVE push_unknown(_, _, _)
push_unknown(todo0, prevs, keys) ==
  Let(todo0, LAMBDA todo :
    IF prevs = <<>> THEN todo
    ELSE push_unknown(IF Head(prevs) \in keys THEN todo ELSE Append(todo, Head(prevs)), Tail(prevs), keys))

\* The loop over todo_outlier_stack.  g is [todo, keys, edges, info, amount, db,
\* ok]; gives g at the end of the loop.
RECURSIVE fetch_prev_loop(_, _, _, _)
fetch_prev_loop(room_id, g0, resp, remote) ==
  Let(g0, LAMBDA g :
    IF g.todo = <<>> \/ ~g.ok THEN g
    ELSE
      LET id == g.todo[Len(g.todo)]
          rest == SubSeq(g.todo, 1, Len(g.todo) - 1)
      IN Let(fetch_and_handle_outliers(g.db, room_id, <<id>>, resp, remote), LAMBDA r :
           LET empty == [g EXCEPT !.todo = rest, !.keys = @ \cup {id}, !.edges[id] = {}, !.db = r.db]
           IN IF r.pdus = <<>> THEN fetch_prev_loop(room_id, empty, resp, remote)
              ELSE IF ~check_room_id(room_id, id) THEN [g EXCEPT !.ok = FALSE, !.db = r.db]
              ELSE IF g.amount > max_fetch_prev_events
                THEN fetch_prev_loop(room_id, empty, resp, remote)
              ELSE IF ~(r.pdus[Len(r.pdus)].json \/ r.db.outlierpdu[id] # None)
                THEN fetch_prev_loop(room_id, empty, resp, remote)
              ELSE IF Pdu[id].origin_server_ts > Pdu[first_pdu_in_room].origin_server_ts
                THEN fetch_prev_loop(room_id,
                       [g EXCEPT !.todo = push_unknown(rest, Pdu[id].prev_events, g.keys),
                                 !.keys = @ \cup {id}, !.edges[id] = SeqToSet(Pdu[id].prev_events),
                                 !.info = @ \cup {id}, !.amount = @ + 1, !.db = r.db],
                       resp, remote)
              ELSE fetch_prev_loop(room_id, [empty EXCEPT !.info = @ \cup {id}], resp, remote)))

\* Gives [ok, sorted, info, db].
fetch_unknown_prev_events(db, room_id, initial_set, resp, remote) ==
  Let(fetch_prev_loop(room_id,
        [todo |-> initial_set, keys |-> {}, edges |-> [x \in EventIds |-> {}], info |-> {},
         amount |-> 0, db |-> db, ok |-> TRUE],
        resp, remote),
      LAMBDA g : [ok |-> g.ok, info |-> g.info, db |-> g.db,
                  sorted |-> lexicographical_topological_sort(g.keys, g.edges, g.info, <<>>)])

\* ---------------------------------------------------------------- the tasks
\* history: what a call found when it started
NoSnap ==
  [taken |-> FALSE, timeline |-> <<>>, outlierpdu |-> <<>>, forward_extremities |-> {},
   current_state |-> <<>>, softfailed |-> {}, rl |-> <<>>, sig_rl |-> NoEntry, disabled |-> FALSE, now |-> 0]
Snap ==
  [taken |-> TRUE, timeline |-> timeline, outlierpdu |-> outlierpdu,
   forward_extremities |-> forward_extremities, current_state |-> current_state,
   softfailed |-> softfailed, rl |-> bad_event_ratelimiter, sig_rl |-> bad_signature_ratelimiter,
   disabled |-> disabled, now |-> now]

IdleTask ==
  [pc |-> "idle", event |-> None, keys |-> FALSE, sorted |-> <<>>, info |-> {}, errors |-> 0,
   target |-> None, for_prev |-> FALSE, soft_fail |-> FALSE, state_at |-> EmptyState,
   cur_seen |-> EmptyState, result |-> NoResult, ran |-> {},
   input |-> NoInput, prev_input |-> NoInput, prev_result |-> NoResult, start |-> 0,
   snap |-> NoSnap, prev_snap |-> NoSnap]

InitialState == [k \in StateKeys |->
                   CASE k = <<"create", "">> -> "c" [] k = <<"acl", "">> -> "acl"
                     [] k = <<"member", "alice">> -> "j" [] OTHER -> None]

InitHandler ==
  /\ timeline = InitialEvents
  /\ outlierpdu = [e \in EventIds |-> None]
  /\ softfailed = {}
  /\ forward_extremities = {"j"}
  /\ referenced = {"c", "acl"}
  /\ current_state = InitialState
  /\ pdu_shortstatehash = {"c", "acl", "j"}
  /\ pdu_state = [e \in EventIds |->
                    CASE e = "acl" -> [EmptyState EXCEPT ![<<"create", "">>] = "c"]
                      [] e = "j" -> [EmptyState EXCEPT ![<<"create", "">>] = "c", ![<<"acl", "">>] = "acl"]
                      [] OTHER -> EmptyState]
  /\ bad_event_ratelimiter = [e \in EventIds |-> NoEntry]
  /\ bad_signature_ratelimiter = NoEntry
  /\ signing_keys = FALSE
  /\ roomid_federationhandletime = NoHandle
  /\ roomid_mutex_state = 0
  /\ disabled = FALSE
  /\ now = 0
  /\ task = [t \in Tasks |-> IdleTask]
  /\ admitted_verdict = [e \in EventIds |-> IF e \in SeqToSet(InitialEvents) THEN "All" ELSE None]
  /\ calls = 0
  /\ toggles = 0

\* the stores a task's outlier handling works on, and their write-back
TaskDb(t) == [Db EXCEPT !.keys = task[t].keys, !.ran = task[t].ran]
CommitStores(db) ==
  /\ outlierpdu' = db.outlierpdu
  /\ admitted_verdict' = db.admitted
  /\ bad_signature_ratelimiter' = db.sig_rl
  /\ signing_keys' = db.signing_keys
CommitDb(db) == CommitStores(db) /\ bad_event_ratelimiter' = db.rl

\* the answers of the origin to get_event: only events that are not stored are asked for
Asked(S) == {x \in Fetchable : ~get_pdu(Db, x) /\ x \in UNION {Ancestors[y] : y \in S}}
Responses(S) ==
  {[x \in Fetchable |-> IF x \in Asked(S) THEN f[x] ELSE "fail"] : f \in [Asked(S) -> FetchResponses]}
\* the same with at most one answer that is not the event as it was sent
SingleFaultResponses(S) == {r \in Responses(S) : Cardinality({x \in Asked(S) : r[x] # "All"}) <= 1}
\* the remote key sources are only asked when the key store lacks the key
Remotes == IF signing_keys THEN {FALSE} ELSE BOOLEAN

\* ------------------------------------------------------- handle_incoming_pdu
\* services().rooms.metadata.is_disabled(room_id) for the known room
is_disabled_never(d) == FALSE
is_disabled(d) == d
\* 1. Skip the PDU if we already have it as a timeline event
never_skip(e) == 0
skip_known_timeline_pdu(e) == get_pdu_id(e)

\* Lines 86-141: the room, the ACL, the timeline short-circuit, handle_outlier_pdu
\* of the incoming event, the is_timeline_event and age tests.  With track the
\* call's input and the previous call's input and result stay in the record.
Start(t, track, origin, room_id, e, form, is_timeline_event, keys, resp, remote) ==
  LET old == task[t]
      fresh == [IdleTask EXCEPT
                  !.event = e, !.start = now,
                  !.input = IF track THEN [origin |-> origin, room |-> room_id, event |-> e, form |-> form,
                                           is_timeline |-> is_timeline_event, keys |-> keys]
                            ELSE NoInput,
                  !.prev_input = IF track THEN old.input ELSE NoInput,
                  !.snap = IF track THEN Snap ELSE NoSnap,
                  !.prev_snap = IF track THEN old.snap ELSE NoSnap,
                  !.prev_result = IF track THEN old.result ELSE NoResult]
      finish(res) == task' = [task EXCEPT ![t] = [fresh EXCEPT !.pc = "done", !.result = res]]
  IN /\ old.pc = "idle" \/ (track /\ old.pc = "done")
     /\ calls < MaxCalls
     /\ calls' = calls + 1
     /\ UNCHANGED <<timeline, softfailed, forward_extremities, referenced, current_state,
                    pdu_shortstatehash, pdu_state, roomid_federationhandletime, roomid_mutex_state,
                    disabled, now, toggles, cvars, probe, lvars, xvars>>
     /\ IF ~metadata_exists(room_id)
        THEN finish(Err("Room is unknown to this server")) /\ CommitDb(Db)
        ELSE IF is_disabled(disabled)
        THEN finish(Err("Federation of this room is currently disabled on this server.")) /\ CommitDb(Db)
        ELSE IF ~acl_check(origin)
        THEN finish(Err("Server was denied by room ACL")) /\ CommitDb(Db)
        ELSE IF skip_known_timeline_pdu(e) # 0
        THEN finish(Ok(skip_known_timeline_pdu(e))) /\ CommitDb(Db)
        ELSE IF create_event = None
        THEN finish(Err("Failed to find create event in db.")) /\ CommitDb(Db)
        ELSE \E h \in {handle_outlier_pdu([Db EXCEPT !.keys = keys], room_id, e, form, FALSE, resp, remote)} :
             /\ CommitDb(h.db)
             /\ IF ~h.ok
                THEN task' = [task EXCEPT ![t] = [fresh EXCEPT !.pc = "done", !.result = Err(h.err),
                                                               !.keys = h.db.keys, !.ran = h.db.ran]]
                ELSE IF ~is_timeline_event
                        \/ Pdu[e].origin_server_ts < Pdu[first_pdu_in_room].origin_server_ts
                THEN task' = [task EXCEPT ![t] = [fresh EXCEPT !.pc = "done", !.result = OkNone,
                                                               !.keys = h.db.keys, !.ran = h.db.ran]]
                ELSE task' = [task EXCEPT ![t] = [fresh EXCEPT !.pc = "fetch_prev",
                                                               !.keys = h.db.keys, !.ran = h.db.ran]]

\* Lines 143-154: 9. fetch any missing prev events
FetchPrev(t, resp, remote) ==
  LET me == task[t]
  IN /\ me.pc = "fetch_prev"
     /\ \E f \in {fetch_unknown_prev_events(TaskDb(t), "r1", Pdu[me.event].prev_events, resp, remote)} :
          /\ CommitDb(f.db)
          /\ task' = [task EXCEPT ![t] =
                        IF f.ok THEN [me EXCEPT !.pc = "prev_loop", !.sorted = f.sorted, !.info = f.info,
                                                !.keys = f.db.keys, !.ran = f.db.ran]
                        ELSE [me EXCEPT !.pc = "done", !.result = Err("Event has wrong room id"),
                                        !.keys = f.db.keys, !.ran = f.db.ran]]
     /\ UNCHANGED <<timeline, softfailed, forward_extremities, referenced, current_state,
                    pdu_shortstatehash, pdu_state, roomid_federationhandletime, roomid_mutex_state,
                    disabled, now, calls, toggles, cvars, probe, lvars, xvars>>

\* if errors >= 5: the other prev events are timed out
too_many_errors_never(errors) == FALSE
too_many_errors_late(errors) == errors >= 6
too_many_errors(errors) == errors >= 5

\* Lines 156-221 and 260-268: one turn of the loop over sorted_prev_events up to
\* the call of upgrade_outlier_to_timeline_pdu, or, after the loop, the same for
\* the incoming event.
PrevStep(t) ==
  LET me == task[t]
      prev_id == Head(me.sorted)
      next == [me EXCEPT !.sorted = Tail(@)]
      upgrade(id, for_prev, rec) ==
        /\ roomid_federationhandletime' = [event |-> id, start |-> now]
        /\ task' = [task EXCEPT ![t] = [rec EXCEPT !.pc = "up_pre", !.target = id, !.for_prev = for_prev]]
        /\ UNCHANGED bad_event_ratelimiter
  IN /\ me.pc = "prev_loop"
     /\ UNCHANGED <<timeline, outlierpdu, softfailed, forward_extremities, referenced, current_state,
                    pdu_shortstatehash, pdu_state, bad_signature_ratelimiter, signing_keys,
                    roomid_mutex_state, disabled, now, admitted_verdict, calls, toggles, cvars, probe, lvars, xvars>>
     /\ IF me.sorted = <<>> THEN upgrade(me.event, FALSE, me)
        ELSE IF disabled
        THEN /\ task' = [task EXCEPT ![t] = [me EXCEPT !.pc = "done", !.result =
                           Err("Federation of this room is currently disabled on this server.")]]
             /\ UNCHANGED <<bad_event_ratelimiter, roomid_federationhandletime>>
        ELSE IF backing_off(bad_event_ratelimiter[prev_id], now)
        THEN /\ task' = [task EXCEPT ![t] = next]
             /\ UNCHANGED <<bad_event_ratelimiter, roomid_federationhandletime>>
        ELSE IF too_many_errors(me.errors)
        THEN /\ bad_event_ratelimiter' = [bad_event_ratelimiter EXCEPT ![prev_id] = back_off(@, now)]
             /\ task' = [task EXCEPT ![t] = next]
             /\ UNCHANGED roomid_federationhandletime
        ELSE IF prev_id \in me.info
                /\ ~(Pdu[prev_id].origin_server_ts < Pdu[first_pdu_in_room].origin_server_ts)
        THEN upgrade(prev_id, TRUE, [next EXCEPT !.info = @ \ {prev_id}])
        ELSE /\ task' = [task EXCEPT ![t] = [next EXCEPT !.info = @ \ {prev_id}]]
             /\ UNCHANGED <<bad_event_ratelimiter, roomid_federationhandletime>>

\* a handler that trips the ratelimiter on every failed promotion, the incoming
\* event's too
AfterUpgrade_ratelimits_incoming(t, me, res, rl) ==
  /\ roomid_federationhandletime' = NoHandle
  /\ bad_event_ratelimiter' =
       IF res.kind = "err" THEN [rl EXCEPT ![me.target] = back_off(@, now)] ELSE rl
  /\ task' = [task EXCEPT ![t] =
                [me EXCEPT !.pc = IF me.for_prev THEN "prev_loop" ELSE "done",
                           !.target = IF me.for_prev THEN None ELSE @,
                           !.result = IF me.for_prev THEN @ ELSE res,
                           !.errors = IF me.for_prev /\ res.kind = "err" THEN @ + 1 ELSE @,
                           !.soft_fail = FALSE, !.state_at = EmptyState, !.cur_seen = EmptyState]]

\* Lines 223-250 and 274-281: what handle_incoming_pdu does with the result of
\* upgrade_outlier_to_timeline_pdu.  rl is the ratelimiter after the upgrade.
AfterUpgrade(t, me, res, rl) ==
  /\ roomid_federationhandletime' = NoHandle
  /\ IF me.for_prev
     THEN /\ bad_event_ratelimiter' =
               IF res.kind = "err" THEN [rl EXCEPT ![me.target] = back_off(@, now)] ELSE rl
          /\ task' = [task EXCEPT ![t] = [me EXCEPT !.pc = "prev_loop", !.target = None,
                                            !.errors = IF res.kind = "err" THEN @ + 1 ELSE @,
                                            !.soft_fail = FALSE, !.state_at = EmptyState,
                                            !.cur_seen = EmptyState]]
     ELSE /\ bad_event_ratelimiter' = rl
          /\ task' = [task EXCEPT ![t] = [me EXCEPT !.pc = "done", !.result = res,
                                            !.soft_fail = FALSE, !.state_at = EmptyState,
                                            !.cur_seen = EmptyState]]

\* ------------------------------------------- upgrade_outlier_to_timeline_pdu
\* the state after a stored event: its snapshot, overlaid with the event itself
\* when it is a state event
StateAfter(p) ==
  IF IsStateEvent(p) THEN [pdu_state[p] EXCEPT ![ShortStateKey(p)] = p] ELSE pdu_state[p]

\* extremity_sstatehashes is keyed by the snapshot: of several prev events with
\* the same snapshot the last one stays
RECURSIVE fork_states(_, _)
fork_states(prevs, i) ==
  IF i > Len(prevs) THEN <<>>
  ELSE (IF \E k \in (i+1)..Len(prevs) : pdu_state[prevs[k]] = pdu_state[prevs[i]]
        THEN <<>> ELSE <<StateAfter(prevs[i])>>) \o fork_states(prevs, i + 1)

\* Lines 477-621: the state at the event from the stored snapshots of its prev
\* events.  Gives [kind, st] with kind "some", "none" or "err".
state_from_prev_events(db, e) ==
  LET prevs == Pdu[e].prev_events
  IN IF Len(prevs) = 1
     THEN IF prevs[1] \notin pdu_shortstatehash THEN [kind |-> "none", st |-> EmptyState]
          ELSE IF ~get_pdu(db, prevs[1]) THEN [kind |-> "err", st |-> EmptyState]
          ELSE [kind |-> "some", st |-> StateAfter(prevs[1])]
     ELSE IF \A i \in 1..Len(prevs) : get_pdu(db, prevs[i]) /\ prevs[i] \in pdu_shortstatehash
          THEN [kind |-> "some", st |-> resolve(fork_states(prevs, 1))]
          ELSE [kind |-> "none", st |-> EmptyState]

\* Lines 623-701: the state at the event from the origin's /state_ids answer,
\* whose events are fetched as outliers.  Gives [ok, err, st, db].
state_from_state_ids(db, room_id, e, sresp, resp, remote) ==
  IF sresp = "fail" THEN [ok |-> FALSE, err |-> "Fetching state for event failed", st |-> EmptyState, db |-> db]
  ELSE Let(fetch_and_handle_outliers(db, room_id, StateIdsAt[e], resp, remote), LAMBDA r :
    LET ids == {r.pdus[i].id : i \in 1..Len(r.pdus)}
        st == [k \in StateKeys |-> IF \E x \in ids : IsStateEvent(x) /\ ShortStateKey(x) = k
                                   THEN CHOOSE x \in ids : IsStateEvent(x) /\ ShortStateKey(x) = k
                                   ELSE None]
        fail(msg) == [ok |-> FALSE, err |-> msg, st |-> EmptyState, db |-> r.db]
    IN IF \E x \in ids : ~IsStateEvent(x) THEN fail("Found non-state pdu in state events.")
       ELSE IF \E i, k \in 1..Len(r.pdus) : i # k /\ ShortStateKey(r.pdus[i].id) = ShortStateKey(r.pdus[k].id)
         THEN fail("State event's type and state_key combination exists multiple times.")
       ELSE IF st[<<"create", "">>] # create_event THEN fail("Incoming event refers to wrong create event.")
       ELSE [ok |-> TRUE, err |-> None, st |-> st, db |-> r.db])

\* the entries of a state map whose events are stored
StoredOnly(db, st) == [k \in StateKeys |-> IF st[k] # None /\ get_pdu(db, st[k]) THEN st[k] ELSE None]

NeedsStateIds(t) ==
  /\ task[t].pc = "up_pre"
  /\ get_pdu_id(task[t].target) = 0
  /\ task[t].target \notin softfailed
  /\ state_from_prev_events(TaskDb(t), task[t].target).kind = "none"

\* Lines 443-741: everything before the room's state lock is taken: the two
\* early returns, the state at the event, the auth check against it and the
\* soft-fail check against the room's current state.
UpPre(t, sresp, resp, remote) ==
  LET me == task[t]
      e == me.target
      return(res, d) == /\ CommitStores(d)
                        /\ AfterUpgrade(t, [me EXCEPT !.keys = d.keys, !.ran = d.ran], res, d.rl)
  IN /\ me.pc = "up_pre"
     /\ UNCHANGED <<timeline, softfailed, forward_extremities, referenced, current_state,
                    pdu_shortstatehash, pdu_state, roomid_mutex_state, disabled, now, calls, toggles,
                    cvars, probe, lvars, xvars>>
     /\ \E db \in {TaskDb(t)} :
          IF get_pdu_id(e) # 0 THEN return(Ok(get_pdu_id(e)), db)
          ELSE IF e \in softfailed THEN return(Err("Event has been soft failed"), db)
          ELSE \E cached \in {state_from_prev_events(db, e)} :
            IF cached.kind = "err" THEN return(Err("Could not find prev event, but we know the state."), db)
            ELSE \E at \in {IF cached.kind = "none"
                             THEN state_from_state_ids(db, "r1", e, sresp, resp, remote)
                             ELSE [ok |-> TRUE, err |-> None, st |-> cached.st, db |-> db]} :
              IF ~at.ok THEN return(Err(at.err), at.db)
              ELSE IF ~auth_check(e, StoredOnly(at.db, at.st))
              THEN return(Err("Event has failed auth check with state at the event."), at.db)
              ELSE /\ CommitDb(at.db)
                   /\ UNCHANGED roomid_federationhandletime
                   /\ task' = [task EXCEPT ![t] =
                                 [me EXCEPT !.pc = "up_lock", !.state_at = at.st,
                                            !.keys = at.db.keys, !.ran = at.db.ran,
                                            !.soft_fail = ~auth_check(e, get_auth_events(e)),
                                            !.cur_seen = current_state]]

\* Lines 745-755: roomid_mutex_state.lock().await
UpLock(t) ==
  /\ task[t].pc = "up_lock"
  /\ roomid_mutex_state = 0
  /\ roomid_mutex_state' = t
  /\ task' = [task EXCEPT ![t].pc = "up_commit"]
  /\ UNCHANGED <<timeline, outlierpdu, softfailed, forward_extremities, referenced, current_state,
                 pdu_shortstatehash, pdu_state, bad_event_ratelimiter, bad_signature_ratelimiter,
                 signing_keys, roomid_federationhandletime, disabled, now, admitted_verdict, calls, toggles, cvars, probe, lvars, xvars>>

\* timeline.append_incoming_pdu: the snapshot of the event is stored and its
\* prev events are marked as referenced; a soft-failed event only sets the
\* room's leaves, any other is appended to the timeline under a new pdu_id and
\* leaves the outliers
append_incoming_pdu(e, new_room_leaves, state_ids_compressed, soft_fail) ==
  /\ pdu_shortstatehash' = pdu_shortstatehash \cup {e}
  /\ pdu_state' = [pdu_state EXCEPT ![e] = state_ids_compressed]
  /\ referenced' = referenced \cup SeqToSet(Pdu[e].prev_events)
  /\ forward_extremities' = new_room_leaves
  /\ IF soft_fail THEN UNCHANGED <<timeline, outlierpdu>>
     ELSE /\ timeline' = Append(timeline, e)
          /\ outlierpdu' = [outlierpdu EXCEPT ![e] = None]

\* Lines 760-780: the room's leaves without the prev events of e and without
\* the events something already refers to
extremities_keep_prev(e) == {id \in forward_extremities : id \notin referenced}
extremities_after(e) ==
  {id \in forward_extremities \ SeqToSet(Pdu[e].prev_events) : id \notin referenced}

\* resolve_state (lines 882-970): the room's current state against the state
\* after the event
resolve_state(incoming_state) == resolve(<<current_state, incoming_state>>)

\* Lines 757-879, under the room's state lock: the new leaves, for a state
\* event the new current state, then the append; the lock is dropped.
UpCommit(t) ==
  LET me == task[t]
      e == me.target
      state_after == [me.state_at EXCEPT ![ShortStateKey(e)] = e]
      res == IF me.soft_fail THEN Err("Event has been soft failed") ELSE Ok(Len(timeline) + 1)
  IN /\ me.pc = "up_commit"
     /\ current_state' = IF IsStateEvent(e) THEN resolve_state(state_after) ELSE current_state
     /\ append_incoming_pdu(e, IF me.soft_fail THEN extremities_after(e) ELSE extremities_after(e) \cup {e},
                            me.state_at, me.soft_fail)
     /\ softfailed' = IF me.soft_fail THEN softfailed \cup {e} ELSE softfailed
     /\ roomid_mutex_state' = 0
     /\ AfterUpgrade(t, me, res, bad_event_ratelimiter)
     /\ UNCHANGED <<bad_signature_ratelimiter, signing_keys, disabled, now, admitted_verdict, calls, toggles,
                    cvars, probe, lvars, xvars>>

\* the caller takes the result; the task is free for the next request
Return(t) ==
  /\ task[t].pc = "done"
  /\ task' = [task EXCEPT ![t] = IdleTask]
  /\ UNCHANGED <<timeline, outlierpdu, softfailed, forward_extremities, referenced, current_state,
                 pdu_shortstatehash, pdu_state, bad_event_ratelimiter, bad_signature_ratelimiter,
                 signing_keys, roomid_federationhandletime, roomid_mutex_state, disabled, now,
                 admitted_verdict, calls, toggles, cvars, probe, lvars, xvars>>

\* time passes, five minutes at a time
Tick ==
  /\ now < MaxTicks * (5 * 60)
  /\ now' = now + 5 * 60
  /\ UNCHANGED <<timeline, outlierpdu, softfailed, forward_extremities, referenced, current_state,
                 pdu_shortstatehash, pdu_state, bad_event_ratelimiter, bad_signature_ratelimiter,
                 signing_keys, roomid_federationhandletime, roomid_mutex_state, disabled, task,
                 admitted_verdict, calls, toggles, cvars, probe, lvars, xvars>>

\* an admin disables or enables federation of the room
ToggleDisabled ==
  /\ toggles < MaxToggles
  /\ toggles' = toggles + 1
  /\ disabled' = ~disabled
  /\ UNCHANGED <<timeline, outlierpdu, softfailed, forward_extremities, referenced, current_state,
                 pdu_shortstatehash, pdu_state, bad_event_ratelimiter, bad_signature_ratelimiter,
                 signing_keys, roomid_federationhandletime, roomid_mutex_state, now, task,
                 admitted_verdict, calls, cvars, probe, lvars, xvars>>

StateIdsResponses(t) == IF NeedsStateIds(t) THEN {"fail", "ok"} ELSE {"fail"}
UpResponses(t) ==
  IF task[t].pc # "up_pre" THEN {}
  ELSE IF NeedsStateIds(t) THEN Responses(SeqToSet(StateIdsAt[task[t].target])) ELSE Responses({})
StartRequests(t, track) ==
  IF calls >= MaxCalls THEN {}
  ELSE IF task[t].pc = "idle" THEN (IF track THEN Requests \cup KnownRequests \cup WrongCreateRequests
                                                  \cup BannedSenderRequests \cup CoveringRequests
                                    ELSE WellFormedRequests)
  ELSE IF track /\ task[t].pc = "done"
    THEN {task[t].input} \cup (IF task[t].input.origin = "evil.test"
                               THEN {BaseRequest(task[t].input.event)} ELSE {})
  ELSE {}
FetchPrevResponses(t) ==
  IF task[t].pc # "fetch_prev" THEN {}
  ELSE IF task[t].event = "w" THEN SingleFaultResponses(SeqToSet(Pdu[task[t].event].prev_events))
  ELSE Responses(SeqToSet(Pdu[task[t].event].prev_events))

StartStep(T, track) ==
  \E t \in T : \E req \in StartRequests(t, track) :
    \E resp \in Responses(SeqToSet(Pdu[req.event].auth_events)), remote \in Remotes :
      Start(t, track, req.origin, req.room, req.event, req.form, req.is_timeline, req.keys, resp, remote)
\* the steps of the calls that are under way
RunStep(T) ==
  \/ \E t \in T : \E resp \in FetchPrevResponses(t), remote \in Remotes : FetchPrev(t, resp, remote)
  \/ \E t \in T : PrevStep(t)
  \/ \E t \in T : \E sresp \in StateIdsResponses(t), resp \in UpResponses(t), remote \in Remotes :
       UpPre(t, sresp, resp, remote)
  \/ \E t \in T : UpLock(t)
  \/ \E t \in T : UpCommit(t)
HandlerStep(T, track) == StartStep(T, track) \/ RunStep(T)

\* the two fork events arrive, in any order and also at the same time
StartFork(T) ==
  \E t \in T : \E req \in (IF calls < MaxCalls /\ task[t].pc = "idle" THEN ForkRequests ELSE {}) :
    \E resp \in Responses(SeqToSet(Pdu[req.event].auth_events)), remote \in Remotes :
      Start(t, FALSE, req.origin, req.room, req.event, req.form, req.is_timeline, req.keys, resp, remote)

\* ------------------------------------------------------------- locks and permits
Procs == 1..MaxProcs
NoProc == [kind |-> None, origin |-> None, room |-> None, pc |-> 0, held |-> {}, sem |-> 0, via_write |-> FALSE,
           ended |-> None, dropped |-> {}]
InitLocks ==
  /\ proc = [p \in Procs |-> NoProc]
  /\ servername_ratelimiter = [o \in Origins |-> 0]
  /\ semaphores_made = [o \in Origins |-> 0]

\* One instruction of an operation, as far as locks are concerned:
\*   acq     wait for `lock` in `mode` ("r" shared, "w" exclusive) and take it
\*   rel     drop the guard of `lock`
\*   work    code between lock operations; `ret` > 0 means it can return early,
\*           dropping the guards named in `drops` and continuing at `ret`
\*   lookup  servername_ratelimiter.read().await.get(origin)
\*   insert  servername_ratelimiter.write().await.entry(origin).or_insert_with(..)
\* `await` marks a suspension point, where the task can be cancelled.
Acq(lock, mode, await) ==
  [op |-> "acq", lock |-> lock, mode |-> mode, await |-> await, ret |-> 0, drops |-> {}]
Rel(lock) ==
  [op |-> "rel", lock |-> lock, mode |-> None, await |-> FALSE, ret |-> 0, drops |-> {}]
Work(await, ret, drops) ==
  [op |-> "work", lock |-> None, mode |-> None, await |-> await, ret |-> ret, drops |-> drops]
MapOp(op) ==
  [op |-> op, lock |-> None, mode |-> None, await |-> TRUE, ret |-> 0, drops |-> {}]

\* handle_outlier_pdu and upgrade_outlier_to_timeline_pdu for one prev event,
\* then the caller's ratelimiter update when the upgrade failed
AdmitProgram ==
  << Acq("pub_key_map", "r", TRUE),
     Work(FALSE, 16, {"pub_key_map"}),
     Rel("pub_key_map"),
     Acq("stateres_mutex", "w", FALSE),
     Rel("stateres_mutex"),
     Work(TRUE, 14, {}),
     Acq("roomid_mutex_state", "w", TRUE),
     Work(FALSE, 14, {"roomid_mutex_state"}),
     Acq("stateres_mutex", "w", FALSE),
     Work(FALSE, 14, {"roomid_mutex_state", "stateres_mutex"}),
     Rel("stateres_mutex"),
     Work(TRUE, 14, {"roomid_mutex_state"}),
     [Rel("roomid_mutex_state") EXCEPT !.ret = 16],
     Acq("bad_event_ratelimiter", "w", TRUE),
     Rel("bad_event_ratelimiter") >>

\* fetch_signing_keys_for_server, then the caller's key-map insert on Ok
KeysProgram ==
  << MapOp("lookup"),
     MapOp("insert"),
     Acq("permit", "w", TRUE),
     Acq("bad_signature_ratelimiter", "r", TRUE),
     Work(FALSE, 13, {"bad_signature_ratelimiter", "permit"}),
     Rel("bad_signature_ratelimiter"),
     Work(TRUE, 11, {"permit"}),
     Rel("permit"),
     Acq("bad_signature_ratelimiter", "w", TRUE),
     [Rel("bad_signature_ratelimiter") EXCEPT !.ret = 13],
     Acq("pub_key_map", "w", TRUE),
     Rel("pub_key_map") >>

\* fetch_join_signing_keys: the cache pass under the key-map write guard, then
\* the requests to notaries and origins
JoinProgram ==
  << Acq("pub_key_map", "w", TRUE),
     Acq("bad_event_ratelimiter", "r", TRUE),
     Work(FALSE, 5, {"bad_event_ratelimiter"}),
     Rel("bad_event_ratelimiter"),
     Rel("pub_key_map"),
     Work(TRUE, 9, {}),
     Acq("pub_key_map", "w", TRUE),
     Rel("pub_key_map") >>

Kinds == {"admit", "keys", "join"}
\* the rooms admissions run in: each has its own state lock
LockRooms == {"r1", "r2"}
ProgramOf_keeps_stateres(kind) ==
  CASE kind = "admit" -> [AdmitProgram EXCEPT ![5] = Work(FALSE, 0, {})]
    [] kind = "keys" -> KeysProgram
    [] kind = "join" -> JoinProgram
ProgramOf(kind) ==
  CASE kind = "admit" -> AdmitProgram
    [] kind = "keys" -> KeysProgram
    [] kind = "join" -> JoinProgram

Active(p) == proc[p].kind /= None /\ proc[p].ended = None
Instr(p) == ProgramOf(proc[p].kind)[proc[p].pc]

\* the lock an instruction of p names: one permit per semaphore, the other
\* locks process-wide
LockOf(p, name) ==
  IF name = "permit" THEN [name |-> name, origin |-> proc[p].origin, id |-> proc[p].sem]
  ELSE IF name = "roomid_mutex_state" THEN [name |-> name, origin |-> proc[p].room, id |-> 0]
  ELSE [name |-> name, origin |-> None, id |-> 0]
Holds(q, l) == \E h \in proc[q].held : h.lock = l
HoldsW(q, l) == \E h \in proc[q].held : h.lock = l /\ h.mode = "w"
\* stateres_mutex.lock(): as Available, for a lock that excludes nobody
Available_to_all(p, l, mode) == TRUE
Available(p, l, mode) ==
  \A q \in Procs \ {p} : IF mode = "w" THEN ~Holds(q, l) ELSE ~HoldsW(q, l)

\* what is left of the guards when a frame is left: Rust drops the guards it owns
kept_on_exit(held, drops) == held
dropped_on_exit(held, drops) == {h \in held : h.lock.name \notin drops}
AllLocks == {"pub_key_map", "stateres_mutex", "roomid_mutex_state", "bad_event_ratelimiter",
             "bad_signature_ratelimiter", "permit"}

\* entry(origin).or_insert_with(|| Arc::new(Semaphore::new(1)))
insert_always(cur, made) == made + 1
or_insert_with(cur, made) == IF cur = 0 THEN made + 1 ELSE cur

\* what is kept of an operation that is over: how it ended, what it still
\* holds, and what it dropped on its way out
Over(rec, how) == [NoProc EXCEPT !.ended = how, !.held = rec.held, !.dropped = rec.dropped]
\* p continues at instruction n, or ends when the program is over
Goto(p, n, rec) ==
  IF n > Len(ProgramOf(proc[p].kind))
  THEN proc' = [proc EXCEPT ![p] = Over(rec, "returned")]
  ELSE proc' = [proc EXCEPT ![p] = [rec EXCEPT !.pc = n]]

\* the operations are interchangeable: they are numbered in the order they
\* start, and by kind
KindOrd(kind, o) ==
  CASE kind = "admit" -> 1
    [] kind = "join" -> 2
    [] kind = "keys" /\ o = "a.test" -> 3
    [] OTHER -> 4
LkStart(p) ==
  /\ proc[p].kind = None /\ proc[p].ended = None
  /\ \E kind \in Kinds : \E o \in (IF kind = "keys" THEN Origins ELSE {None}) :
     \E room \in (IF kind = "admit" THEN LockRooms ELSE {None}) :
       /\ \A q \in Procs : q < p =>
            \/ proc[q].ended /= None
            \/ proc[q].kind /= None /\ KindOrd(proc[q].kind, proc[q].origin) <= KindOrd(kind, o)
       /\ proc' = [proc EXCEPT ![p] = [NoProc EXCEPT !.kind = kind, !.origin = o, !.room = room,
                                                     !.pc = 1]]
  /\ UNCHANGED <<hvars, cvars, probe, servername_ratelimiter, semaphores_made, xvars>>

LkAcquire(p) ==
  /\ Active(p) /\ Instr(p).op = "acq"
  /\ \E l \in {LockOf(p, Instr(p).lock)} :
       /\ Available(p, l, Instr(p).mode)
       /\ Goto(p, proc[p].pc + 1,
               [proc[p] EXCEPT !.held = @ \cup {[lock |-> l, mode |-> Instr(p).mode]}])
  /\ UNCHANGED <<hvars, cvars, probe, servername_ratelimiter, semaphores_made, xvars>>

LkRelease(p) ==
  /\ Active(p) /\ Instr(p).op = "rel"
  /\ Goto(p, IF Instr(p).ret > 0 THEN Instr(p).ret ELSE proc[p].pc + 1,
          [proc[p] EXCEPT !.held = {h \in @ : h.lock.name /= Instr(p).lock}])
  /\ UNCHANGED <<hvars, cvars, probe, servername_ratelimiter, semaphores_made, xvars>>

LkWork(p) ==
  /\ Active(p) /\ Instr(p).op = "work"
  /\ Goto(p, proc[p].pc + 1, proc[p])
  /\ UNCHANGED <<hvars, cvars, probe, servername_ratelimiter, semaphores_made, xvars>>

\* an early return (an Err, a `?`, or Ok before the end of the function)
LkReturn(p) ==
  /\ Active(p) /\ Instr(p).op = "work" /\ Instr(p).ret > 0
  /\ Goto(p, Instr(p).ret,
          [proc[p] EXCEPT !.held = dropped_on_exit(@, Instr(p).drops),
                          !.dropped = @ \cup ({h.lock.name : h \in proc[p].held} \cap Instr(p).drops)])
  /\ UNCHANGED <<hvars, cvars, probe, servername_ratelimiter, semaphores_made, xvars>>

\* the task's future is dropped at a suspension point
LkCancel(p) ==
  /\ Active(p) /\ Instr(p).await
  /\ proc' = [proc EXCEPT ![p] =
                Over([@ EXCEPT !.held = dropped_on_exit(@, AllLocks),
                               !.dropped = @ \cup {h.lock.name : h \in proc[p].held}], "cancelled")]
  /\ UNCHANGED <<hvars, cvars, probe, servername_ratelimiter, semaphores_made, xvars>>

LkLookup(p) ==
  /\ Active(p) /\ Instr(p).op = "lookup"
  /\ \E s \in {servername_ratelimiter[proc[p].origin]} :
       Goto(p, IF s /= 0 THEN proc[p].pc + 2 ELSE proc[p].pc + 1, [proc[p] EXCEPT !.sem = s])
  /\ UNCHANGED <<hvars, cvars, probe, servername_ratelimiter, semaphores_made, xvars>>

LkInsert(p) ==
  /\ Active(p) /\ Instr(p).op = "insert"
  /\ \E o \in {proc[p].origin} :
     \E s \in {or_insert_with(servername_ratelimiter[o], semaphores_made[o])} :
       /\ servername_ratelimiter' = [servername_ratelimiter EXCEPT ![o] = s]
       /\ semaphores_made' = [semaphores_made EXCEPT ![o] = IF s > @ THEN s ELSE @]
       /\ Goto(p, proc[p].pc + 1, [proc[p] EXCEPT !.sem = s, !.via_write = TRUE])
  /\ UNCHANGED <<hvars, cvars, probe, xvars>>

\* ------------------------------------- fetch_signing_keys_for_server, in detail
\* One origin, its key ids, and the sources the server can ask: the notaries
\* of globals.trusted_servers(), in list order, and the origin itself.
KeyIds == {"ed25519:1", "ed25519:2"}
\* the servers whose keys are fetched, and the lists of key ids a call can name
KeyOrigins == {"a.test", "b.test"}
SignatureIds == SUBSET KeyIds \ {{}}
trusted_servers == <<"notary1", "notary2">>
KeySources_origin_first(first) == <<"origin">> \o trusted_servers
KeySources(first) ==
  IF first THEN trusted_servers \o <<"origin">> ELSE <<"origin">> \o trusted_servers
\* a request fails, or answers with some of the origin's keys
KeyAnswers == {[ok |-> FALSE, keys |-> {}]} \cup {[ok |-> TRUE, keys |-> K] : K \in SUBSET KeyIds}
contains_any_id(signature_ids, keys) == signature_ids \cap keys /= {}
contains_all_ids(signature_ids, keys) == signature_ids \subseteq keys
KeyFetchFailed == "Failed to find public key for server"
KeyFetchBackoff == "bad signature, still backing off"
NoFetch == [pc |-> "idle", origin |-> None, signature_ids |-> {}, result |-> {}, sent |-> <<>>, ret |-> None]

\* the configuration and the key store the calls start from; the ratelimiter
\* is keyed by the list of key ids; failed: the origins a fetch has failed for
KeyState(first, K) ==
  [query_trusted_key_servers_first |-> first, signing_keys_for |-> [o \in KeyOrigins |-> K],
   bad_signature_ratelimiter |-> [ids \in SignatureIds |-> [time |-> 0, tries |-> 0]],
   now |-> 0, calls |-> 0, failed |-> {}, call |-> NoFetch]
InitKeys == kf = KeyState(TRUE, {})

\* bad_signature_ratelimiter.get(&signature_ids): the entry of the key ids,
\* whichever origin they are asked for
ratelimiter_entry(rl, origin, signature_ids) == rl[signature_ids]

\* the call up to its first request: backoff on the key ids, then the key store
KfStart ==
  /\ kf.call.pc \in {"idle", "done"} /\ kf.calls < MaxKeyCalls
  /\ \E origin \in KeyOrigins, ids \in SignatureIds :
       kf' = [kf EXCEPT !.calls = @ + 1,
                !.call = IF backing_off(ratelimiter_entry(kf.bad_signature_ratelimiter, origin, ids), kf.now)
                         THEN [NoFetch EXCEPT !.pc = "done", !.origin = origin, !.signature_ids = ids,
                                              !.ret = KeyFetchBackoff]
                         ELSE IF contains_all_ids(ids, kf.signing_keys_for[origin])
                         THEN [NoFetch EXCEPT !.pc = "done", !.origin = origin, !.signature_ids = ids,
                                              !.result = kf.signing_keys_for[origin], !.ret = "ok"]
                         ELSE [NoFetch EXCEPT !.pc = "ask", !.origin = origin, !.signature_ids = ids,
                                              !.result = kf.signing_keys_for[origin]]]
  /\ UNCHANGED <<hvars, cvars, probe, lvars, wk, pf, jk>>

\* the next source is asked; its keys are stored and merged, and the call
\* returns once all required ids are known
KfAsk ==
  /\ kf.call.pc = "ask"
  /\ \E src \in {KeySources(kf.query_trusted_key_servers_first)[Len(kf.call.sent) + 1]} :
     \E a \in KeyAnswers :
     \E res \in {kf.call.result \cup a.keys} :
     \E sent \in {Append(kf.call.sent, src)} :
       kf' = [kf EXCEPT
                !.signing_keys_for[kf.call.origin] = @ \cup a.keys,
                !.call = IF a.ok /\ contains_all_ids(kf.call.signature_ids, res)
                         THEN [@ EXCEPT !.pc = "done", !.result = res, !.sent = sent, !.ret = "ok"]
                         ELSE IF Len(sent) = Len(KeySources(kf.query_trusted_key_servers_first))
                         THEN [@ EXCEPT !.pc = "failed", !.result = res, !.sent = sent]
                         ELSE [@ EXCEPT !.result = res, !.sent = sent]]
  /\ UNCHANGED <<hvars, cvars, probe, lvars, wk, pf, jk>>

\* drop(permit); back_off(signature_ids).await; Err(..)
KfFail ==
  /\ kf.call.pc = "failed"
  /\ kf' = [kf EXCEPT !.bad_signature_ratelimiter[kf.call.signature_ids] = back_off(@, kf.now),
                      !.failed = @ \cup {kf.call.origin},
                      !.call = [@ EXCEPT !.pc = "done", !.ret = KeyFetchFailed]]
  /\ UNCHANGED <<hvars, cvars, probe, lvars, wk, pf, jk>>

KfTick ==
  /\ kf.now < MaxTicks * (5 * 60)
  /\ kf' = [kf EXCEPT !.now = @ + 5 * 60]
  /\ UNCHANGED <<hvars, cvars, probe, lvars, wk, pf, jk>>

\* --------------------------------- fetch_and_handle_outliers, one walk in detail
\* The events a walk can meet, e4 being the requested id.  An event's auth
\* events are any list of different earlier events.
WalkIds == 1..MaxWalkIds
RECURSIVE Lists(_)
Lists(S) == {<<>>} \cup UNION {{<<x>> \o l : l \in Lists(S \ {x})} : x \in S}
RECURSIVE GraphsOf(_)
GraphsOf(n) == IF n = 0 THEN {<<>>} ELSE {Append(g, l) : g \in GraphsOf(n - 1), l \in Lists(1..(n - 1))}
AuthGraphs == GraphsOf(MaxWalkIds)
\* events: the requested ids still to come; events_with_auth_events: the lists
\* of the walks that are over, in replay order; requests: the ids asked of the
\* origin; backed_off: the ids the call has put into the bad-event ratelimiter
WalkState(g, local) ==
  [auth_events |-> g, local |-> local, pc |-> "walk", todo_auth_events |-> <<MaxWalkIds>>,
   events_in_reverse_order |-> <<>>, events_all |-> {}, handled |-> <<>>,
   events |-> <<>>, events_with_auth_events |-> <<>>, requests |-> <<>>, backed_off |-> {}]
\* a call for the ids of events, none of them stored
CallState(g, events) ==
  [WalkState(g, {}) EXCEPT !.todo_auth_events = <<Head(events)>>, !.events = Tail(events)]
InitWalk == wk = WalkState([i \in WalkIds |-> <<>>], {})

\* events_in_reverse_order.iter().rev()
rev(s) == [i \in 1..Len(s) |-> s[Len(s) + 1 - i]]

\* one turn of `while let Some(next_id) = todo_auth_events.pop()`: an id that
\* is backed off from, seen in this walk or found in the db is dropped; the
\* others are asked of the origin: a fetched event is listed and its auth
\* events are pushed; a failed fetch backs off from the id and lists nothing
WkPop ==
  /\ wk.pc = "walk" /\ wk.todo_auth_events /= <<>>
  /\ \E next_id \in {wk.todo_auth_events[Len(wk.todo_auth_events)]} :
     \E rest \in {SubSeq(wk.todo_auth_events, 1, Len(wk.todo_auth_events) - 1)} :
       IF next_id \in wk.backed_off \/ next_id \in wk.events_all \/ next_id \in wk.local
       THEN wk' = [wk EXCEPT !.todo_auth_events = rest]
       ELSE \E fetched \in BOOLEAN :
              wk' = IF fetched
                    THEN [wk EXCEPT !.todo_auth_events = rest \o wk.auth_events[next_id],
                                    !.events_in_reverse_order = Append(@, next_id),
                                    !.events_all = @ \cup {next_id},
                                    !.requests = Append(@, next_id)]
                    ELSE [wk EXCEPT !.todo_auth_events = rest,
                                    !.requests = Append(@, next_id),
                                    !.backed_off = @ \cup {next_id}]
  /\ UNCHANGED <<hvars, cvars, probe, lvars, kf, pf, jk>>

\* the walk for one requested id is over: its list is kept for the replay,
\* which takes it from its end.  The next requested id is looked up in the db
\* and, when it is not there, walked with a new events_all; the replay begins
\* after the last walk.
WkWalked ==
  /\ wk.pc = "walk" /\ wk.todo_auth_events = <<>>
  /\ \E done \in {wk.events_with_auth_events \o rev(wk.events_in_reverse_order)} :
       wk' = IF wk.events = <<>>
             THEN [wk EXCEPT !.pc = "replay", !.events_in_reverse_order = done]
             ELSE [wk EXCEPT !.events = Tail(@), !.events_with_auth_events = done,
                             !.events_in_reverse_order = <<>>, !.events_all = {},
                             !.todo_auth_events = IF Head(wk.events) \in wk.local THEN <<>>
                                                  ELSE <<Head(wk.events)>>]
  /\ UNCHANGED <<hvars, cvars, probe, lvars, kf, pf, jk>>

\* the next listed event goes to handle_outlier_pdu
WkReplay ==
  /\ wk.pc = "replay" /\ wk.events_in_reverse_order /= <<>>
  /\ wk' = [wk EXCEPT !.handled = Append(@, Head(wk.events_in_reverse_order)),
                      !.events_in_reverse_order = Tail(@)]
  /\ UNCHANGED <<hvars, cvars, probe, lvars, kf, pf, jk>>

\* --------------------------------- fetch_unknown_prev_events, one call in detail
\* The events a traversal can meet; the incoming event is the last one and its
\* prev_events are the initial set.  max is the configured
\* services().globals.max_fetch_prev_events(); the events of old are not newer
\* than the first pdu of the room.
PrevIds == 1..MaxPrevIds
PrevState(g, max, old) ==
  [prev_events |-> g, max_fetch_prev_events |-> max, old |-> old, pc |-> "fetch",
   todo_outlier_stack |-> g[MaxPrevIds + 1], graph |-> {}, edges |-> [i \in PrevIds |-> {}],
   eventid_info |-> {}, amount |-> 0, at_limit |-> {}, promoted |-> {}]
InitPrev == pf = PrevState([i \in 1..(MaxPrevIds + 1) |-> <<>>], 0, {})

\* `if amount > max_fetch_prev_events`
limit_reached(amount, max) == amount > max

\* the prev events pushed: those that are no key of the graph yet
RECURSIVE push_prev_prev(_, _, _)
push_prev_prev(todo, prevs, keys) ==
  IF prevs = <<>> THEN todo
  ELSE push_prev_prev(IF Head(prevs) \in keys THEN todo ELSE Append(todo, Head(prevs)), Tail(prevs), keys)

\* one turn of `while let Some(prev_event_id) = todo_outlier_stack.pop()`
PfPop ==
  /\ pf.pc = "fetch" /\ pf.todo_outlier_stack /= <<>>
  /\ \E id \in {pf.todo_outlier_stack[Len(pf.todo_outlier_stack)]} :
     \E rest \in {SubSeq(pf.todo_outlier_stack, 1, Len(pf.todo_outlier_stack) - 1)} :
     \E got \in {"pdu and json", "no pdu", "no json"} :
       LET empty == [pf EXCEPT !.todo_outlier_stack = rest, !.graph = @ \cup {id}, !.edges[id] = {}]
       IN pf' = IF got = "no pdu" THEN empty
                ELSE IF limit_reached(pf.amount, pf.max_fetch_prev_events)
                  THEN [empty EXCEPT !.at_limit = @ \cup {id}]
                ELSE IF got = "no json" THEN empty
                ELSE IF id \notin pf.old
                  THEN [pf EXCEPT !.amount = @ + 1,
                                  !.todo_outlier_stack = push_prev_prev(rest, pf.prev_events[id], pf.graph),
                                  !.graph = @ \cup {id},
                                  !.edges[id] = SeqToSet(pf.prev_events[id]),
                                  !.eventid_info = @ \cup {id}]
                ELSE [empty EXCEPT !.eventid_info = @ \cup {id}]
  /\ UNCHANGED <<hvars, cvars, probe, lvars, kf, wk, jk>>

\* the stack is empty: the graph is sorted and handed to the caller
PfSorted ==
  /\ pf.pc = "fetch" /\ pf.todo_outlier_stack = <<>>
  /\ pf' = [pf EXCEPT !.pc = "promote"]
  /\ UNCHANGED <<hvars, cvars, probe, lvars, kf, wk, jk>>

\* handle_incoming_pdu's loop over the sorted ids: an id whose edges are all
\* done comes next; with info and newer than the first pdu it is upgraded,
\* unless it is backed off from or five upgrades have failed
PfPromote ==
  /\ pf.pc = "promote"
  /\ \E id \in {n \in pf.graph : pf.edges[n] \cap pf.graph = {}} :
     \E upgraded \in BOOLEAN :
       pf' = [pf EXCEPT !.graph = @ \ {id},
                        !.eventid_info = @ \ {id},
                        !.promoted = IF upgraded /\ id \in pf.eventid_info /\ id \notin pf.old
                                     THEN @ \cup {id} ELSE @]
  /\ UNCHANGED <<hvars, cvars, probe, lvars, kf, wk, jk>>

\* ------------------------------------------------------ fetch_join_signing_keys
\* servers: the signing servers of the join response whose keys the cache did
\* not have (lines 1563-1585); first: query_trusted_key_servers_first; got: the
\* servers whose keys are in pub_key_map; asked: the sources queried so far
KeyServers == {"s1", "s2", "s3"}
JoinKeysState(first, servers) ==
  [query_trusted_key_servers_first |-> first, servers |-> servers, pc |-> "cache",
   asked |-> <<>>, got |-> {}, got_first |-> {}]
InitJoinKeys == jk = JoinKeysState(TRUE, {})

\* the sources in the order of the branch taken
JoinSources(first) == IF first THEN <<"notaries", "servers">> ELSE <<"servers", "notaries">>

\* batch_request_signing_keys and request_signing_keys are handed
\* servers.clone(): what they remove is removed from their copy
servers_after(servers, answered) == servers

\* `if servers.is_empty()` after the cache: nothing to fetch
JkCached ==
  /\ jk.pc = "cache"
  /\ jk' = [jk EXCEPT !.pc = IF jk.servers = {} THEN "done" ELSE "first"]
  /\ UNCHANGED <<hvars, cvars, probe, lvars, kf, wk, pf>>

\* one source is queried; it supplies the keys of some of the servers asked for.
\* After the first source `if servers.is_empty()` decides about the second.
JkAsk ==
  /\ jk.pc \in {"first", "second"}
  /\ \E answered \in SUBSET jk.servers :
       LET servers == servers_after(jk.servers, answered)
           source == JoinSources(jk.query_trusted_key_servers_first)[IF jk.pc = "first" THEN 1 ELSE 2]
       IN jk' = [jk EXCEPT !.asked = Append(@, source),
                           !.got = @ \cup answered,
                           !.got_first = IF jk.pc = "first" THEN answered ELSE @,
                           !.servers = servers,
                           !.pc = IF jk.pc = "first" /\ servers /= {} THEN "second" ELSE "done"]
  /\ UNCHANGED <<hvars, cvars, probe, lvars, kf, wk, pf>>

\* the sort has no further id to give (an id whose edges never empty is not
\* given): the loop is over and the incoming event is handed to
\* upgrade_outlier_to_timeline_pdu (lines 260-268)
PfIncoming ==
  /\ pf.pc = "promote"
  /\ {n \in pf.graph : pf.edges[n] \cap pf.graph = {}} = {}
  /\ pf' = [pf EXCEPT !.pc = "incoming"]
  /\ UNCHANGED <<hvars, cvars, probe, lvars, kf, wk, jk>>

\* graphs as a peer can serve them when event ids are not content hashes: an
\* event lists up to MaxListed of the events, itself included
ShortLists(S) == {l \in Lists(S) : Len(l) <= MaxListed}
CyclicAuthGraphs ==
  {[i \in WalkIds |-> IF i = 1 THEN <<>> ELSE h[i]] :
     h \in [WalkIds \ {1} -> ShortLists(WalkIds \ {1})]}
CyclicPrevGraphs ==
  {[i \in 1..(MaxPrevIds + 1) |-> IF i \in PrevIds THEN h[i] ELSE <<first>>] :
     h \in [PrevIds -> ShortLists(PrevIds)], first \in PrevIds}
\* a walk and a traversal that are over
WalkOver(w) == w.pc = "replay" /\ w.events_in_reverse_order = <<>>
NoWalk == [WalkState([i \in WalkIds |-> <<>>], {}) EXCEPT !.pc = "replay", !.todo_auth_events = <<>>]
NoTraversal == [PrevState([i \in 1..(MaxPrevIds + 1) |-> <<>>], 0, {}) EXCEPT !.pc = "incoming",
                                                                        !.todo_outlier_stack = <<>>]

InitCache ==
  /\ membership = [joined |-> {}, invited |-> {}, left |-> {}]
  /\ once_joined = {}
  /\ account_data = [u \in {"u1", "u2"} |-> [tag |-> "none", direct |-> "none", ignored |-> "none"]]
  /\ joined_count = 0
  /\ last_call = [op |-> "none", user |-> "none", membership |-> "none", result |-> "none", before |-> {},
                  predecessor |-> FALSE, at |-> 0]
  /\ ops = 0
InitProbe ==
  probe = [site |-> "none", entry |-> [time |-> 0, tries |-> 0], at |-> 0, checked |-> FALSE,
           skipped |-> FALSE, min_wait |-> 0]

Init == InitHandler /\ InitCache /\ InitProbe /\ InitLocks /\ InitKeys /\ InitWalk /\ InitPrev /\ InitJoinKeys
Next == HandlerStep(Tasks, FALSE) \/ ToggleDisabled \/ \E t \in Tasks : Return(t)
Spec == Init /\ [][Next]_vars

\* one request and its repeats, one after the other, each remembering the one
\* before; after a request of the denied server the allowed server may send the
\* event
NextSeq == HandlerStep({1}, TRUE) \/ Tick \/ ToggleDisabled
SpecSeq == Init /\ [][NextSeq]_vars

\* the ban and the event with six prev events arrive, one call after the other
StartBatch ==
  \E req \in (IF calls < MaxCalls /\ task[1].pc = "idle" THEN BatchRequests ELSE {}) :
    \E resp \in Responses(SeqToSet(Pdu[req.event].auth_events)), remote \in Remotes :
      Start(1, FALSE, req.origin, req.room, req.event, req.form, req.is_timeline, req.keys, resp, remote)
NextBatch == StartBatch \/ RunStep({1}) \/ Return(1)
SpecBatch == Init /\ [][NextBatch]_vars

NextFork == StartFork(Tasks) \/ RunStep(Tasks) \/ \E t \in Tasks : Return(t)
SpecFork == Init /\ [][NextFork]_vars

NextLocks ==
  \E p \in Procs :
    \/ LkStart(p) \/ LkAcquire(p) \/ LkRelease(p) \/ LkWork(p) \/ LkReturn(p)
    \/ LkCancel(p) \/ LkLookup(p) \/ LkInsert(p)
SpecLocks == Init /\ [][NextLocks]_vars

NextKeys == KfStart \/ KfAsk \/ KfFail \/ KfTick
InitKeyFetch ==
  /\ InitHandler /\ InitCache /\ InitProbe /\ InitLocks /\ InitWalk /\ InitPrev /\ InitJoinKeys
  /\ kf \in {KeyState(first, K) : first \in BOOLEAN, K \in SUBSET KeyIds}
SpecKeys == InitKeyFetch /\ [][NextKeys]_vars

InitWalks ==
  /\ InitHandler /\ InitCache /\ InitProbe /\ InitLocks /\ InitKeys /\ InitPrev /\ InitJoinKeys
  /\ wk \in {WalkState(g, local) : g \in AuthGraphs, local \in SUBSET (WalkIds \ {MaxWalkIds})}
NextWalk == WkPop \/ WkWalked \/ WkReplay
SpecWalk == InitWalks /\ [][NextWalk]_vars

\* one call of fetch_and_handle_outliers for two ids
InitCall ==
  /\ InitHandler /\ InitCache /\ InitProbe /\ InitLocks /\ InitKeys /\ InitPrev /\ InitJoinKeys
  /\ wk \in {CallState(g, events) : g \in AuthGraphs,
                                     events \in {e \in Lists(WalkIds) : Len(e) = MaxRequested}}
SpecCall == InitCall /\ [][NextWalk]_vars

InitPrevs ==
  /\ InitHandler /\ InitCache /\ InitProbe /\ InitLocks /\ InitKeys /\ InitWalk /\ InitJoinKeys
  /\ pf \in {PrevState(g, max, old) : g \in GraphsOf(MaxPrevIds + 1), max \in 0..MaxLimit, old \in SUBSET {1}}
NextPrev == PfPop \/ PfSorted \/ PfPromote \/ PfIncoming
SpecPrev == InitPrevs /\ [][NextPrev]_vars

\* one walk or one traversal over a graph that may have cycles; each runs in
\* its caller's task, which goes on whenever it can
InitCycles ==
  /\ InitHandler /\ InitCache /\ InitProbe /\ InitLocks /\ InitKeys /\ InitJoinKeys
  /\ \/ wk = NoWalk /\ pf \in {PrevState(g, MaxLimit, {}) : g \in CyclicPrevGraphs}
     \/ pf = NoTraversal /\ wk \in {WalkState(g, {}) : g \in CyclicAuthGraphs}
NextCycles == NextWalk \/ NextPrev
SpecCycles == InitCycles /\ [][NextCycles]_vars /\ WF_vars(NextCycles)

InitJoinFetch ==
  /\ InitHandler /\ InitCache /\ InitProbe /\ InitLocks /\ InitKeys /\ InitWalk /\ InitPrev
  /\ jk \in {JoinKeysState(first, servers) : first \in BOOLEAN, servers \in SUBSET KeyServers}
NextJoinKeys == JkCached \/ JkAsk
SpecJoinKeys == InitJoinFetch /\ [][NextJoinKeys]_vars

\* ----------------------------------------------------------- rooms.state_cache
Users == {"u1", "u2"}
Memberships == {"join", "invite", "leave", "ban", "knock"}
\* a user's account data as update_membership reads it: the tag event for the
\* predecessor room, the direct-chat event, the ignored-user list ("sender":
\* the list names the sender of the invite)
NoData == [tag |-> "none", direct |-> "none", ignored |-> "none"]
AccountDataValues ==
  {NoData, [NoData EXCEPT !.tag = "valid"], [NoData EXCEPT !.tag = "invalid"],
   [NoData EXCEPT !.direct = "valid"], [NoData EXCEPT !.direct = "invalid"],
   [NoData EXCEPT !.ignored = "empty"], [NoData EXCEPT !.ignored = "sender"],
   [NoData EXCEPT !.ignored = "invalid"]}

\* the Data layer's marks: setting one clears the others
mark_as_joined(ms, u) ==
  [joined |-> ms.joined \cup {u}, invited |-> ms.invited \ {u}, left |-> ms.left \ {u}]
mark_as_invited(ms, u) ==
  [joined |-> ms.joined \ {u}, invited |-> ms.invited \cup {u}, left |-> ms.left \ {u}]
mark_as_left(ms, u) ==
  [joined |-> ms.joined \ {u}, invited |-> ms.invited \ {u}, left |-> ms.left \cup {u}]
\* the Data layer's forget: the room leaves the user's left rooms
db_forget(ms, u) == [ms EXCEPT !.left = @ \ {u}]

MembershipOf(ms, u) ==
  {k \in {"joined", "invited", "left"} :
     \/ (k = "joined" /\ u \in ms.joined)
     \/ (k = "invited" /\ u \in ms.invited)
     \/ (k = "left" /\ u \in ms.left)}

\* the arm of the match on the membership: which mark it ends in
membership_arm_ban_unmarked(m) ==
  CASE m = "join" -> "joined" [] m = "invite" -> "invited" [] m = "leave" -> "left" [] OTHER -> "none"
membership_arm(m) ==
  CASE m = "join" -> "joined" [] m = "invite" -> "invited"
    [] m \in {"leave", "ban"} -> "left" [] OTHER -> "none"

\* !self.once_joined(user_id, room_id)?
never_joined_or_rejoining(u, oj) == TRUE
never_joined(u, oj) == u \notin oj
\* the recipient's m.ignored_user_list names the sender of the invite
sender_ignored_never(d) == FALSE
sender_ignored(d) == d.ignored = "sender"

\* update_membership for the room (lines 30-204).  predecessor: the room's
\* create event names a predecessor room.
update_membership(u, m, predecessor, update_joined_count) ==
  LET d == account_data[u]
      arm == membership_arm(m)
      first_join == arm = "joined" /\ never_joined(u, once_joined)
      copying == first_join /\ predecessor
      failed == \/ (copying /\ (d.tag = "invalid" \/ d.direct = "invalid"))
                \/ (arm = "invited" /\ d.ignored = "invalid")
      is_ignored == arm = "invited" /\ sender_ignored(d)
      marked == CASE arm = "joined" -> mark_as_joined(membership, u)
                  [] arm = "invited" -> mark_as_invited(membership, u)
                  [] arm = "left" -> mark_as_left(membership, u)
                  [] OTHER -> membership
      result == IF failed THEN "err" ELSE IF is_ignored THEN "ignored" ELSE "ok"
  IN /\ ops < MaxOps
     /\ ops' = ops + 1
     /\ once_joined' = IF first_join THEN once_joined \cup {u} ELSE once_joined
     /\ account_data' =
          IF copying /\ d.tag = "valid"
          THEN [account_data EXCEPT ![u].tag = "copied",
                                    ![u].direct = IF d.direct = "valid" THEN "updated" ELSE @]
          ELSE IF copying /\ d.tag # "invalid" /\ d.direct = "valid"
          THEN [account_data EXCEPT ![u].direct = "updated"]
          ELSE account_data
     /\ membership' = IF failed \/ is_ignored THEN membership ELSE marked
     /\ joined_count' = IF ~failed /\ ~is_ignored /\ update_joined_count
                        THEN Cardinality(membership'.joined) ELSE joined_count
     /\ last_call' = [op |-> "update_membership", user |-> u, membership |-> m, result |-> result,
                      before |-> MembershipOf(membership, u), predecessor |-> predecessor,
                      at |-> ops + 1]
     /\ UNCHANGED <<hvars, probe, lvars, xvars>>

\* forget (line 221)
forget(u) ==
  /\ ops < MaxOps
  /\ ops' = ops + 1
  /\ membership' = db_forget(membership, u)
  /\ last_call' = [op |-> "forget", user |-> u, membership |-> None, result |-> "ok",
                   before |-> MembershipOf(membership, u), predecessor |-> FALSE, at |-> ops + 1]
  /\ UNCHANGED <<once_joined, account_data, joined_count, hvars, probe, lvars, xvars>>

\* a client replaces the user's account data
set_account_data(u, d) ==
  /\ ops < MaxOps
  /\ ops' = ops + 1
  /\ account_data[u] = NoData
  /\ d # NoData
  /\ account_data' = [account_data EXCEPT ![u] = d]
  /\ UNCHANGED <<membership, once_joined, joined_count, last_call, hvars, probe, lvars, xvars>>

NextMembership ==
  \/ \E u \in Users, m \in Memberships, predecessor \in BOOLEAN, update_joined_count \in BOOLEAN :
       update_membership(u, m, predecessor, update_joined_count)
  \/ \E u \in Users : forget(u)
  \/ \E u \in Users, d \in AccountDataValues : set_account_data(u, d)
SpecMembership == Init /\ [][NextMembership]_vars

\* ------------------------------------------------------------ the backoff check
NoProbe == [site |-> None, entry |-> NoEntry, at |-> 0, checked |-> FALSE, skipped |-> FALSE, min_wait |-> 0]
BackoffSites == {"bad_event", "bad_signature"}
\* elapsed times around every window's end
Elapsed ==
  {0} \cup UNION {{5 * 60 * n * n - 1, 5 * 60 * n * n, 5 * 60 * n * n + 1} : n \in 1..MaxTries}
      \cup {60 * 60 * 24 - 1, 60 * 60 * 24, 60 * 60 * 24 + 1}
InitBackoff ==
  /\ InitHandler /\ InitCache /\ InitLocks /\ InitKeys /\ InitWalk /\ InitPrev /\ InitJoinKeys
  /\ probe \in {[NoProbe EXCEPT !.entry = [time |-> t, tries |-> n], !.at = t + d] :
                  t \in {0, 5 * 60}, n \in 1..MaxTries, d \in Elapsed}
\* the check a walk, a replay, the prev-event loop and the key fetcher make
\* before they work on an id
CheckBackoff(site) ==
  /\ ~probe.checked
  /\ probe' = [probe EXCEPT !.site = site, !.checked = TRUE,
                            !.skipped = backing_off(probe.entry, probe.at),
                            !.min_wait = min_elapsed_duration(probe.entry.tries)]
  /\ UNCHANGED <<hvars, cvars, lvars, xvars>>
NextBackoff == \E site \in BackoffSites : CheckBackoff(site)
SpecBackoff == InitBackoff /\ [][NextBackoff]_vars

\* ------------------------------------------------------------------ properties
\* a repeat of the call before it has returned (SpecSeq)
SecondCallDone ==
  task[1].pc = "done" /\ task[1].prev_snap.taken /\ task[1].input = task[1].prev_input
\* the stores are as the call found them
StoresAsFound(sn) ==
  /\ timeline = sn.timeline
  /\ outlierpdu = sn.outlierpdu
  /\ forward_extremities = sn.forward_extremities
  /\ current_state = sn.current_state
  /\ softfailed = sn.softfailed
  /\ bad_event_ratelimiter = sn.rl
  /\ bad_signature_ratelimiter = sn.sig_rl
DisabledError == Err("Federation of this room is currently disabled on this server.")

Occurrences(e) == Cardinality({i \in 1..Len(timeline) : timeline[i] = e})

\* C2: under any interleaving of concurrent calls for the same event, the event
\* is appended to the timeline at most once and all successful calls return the
\* same pdu_id.
C2_PromotedOnce ==
  /\ \A e \in EventIds : Occurrences(e) <= 1
  /\ \A t1, t2 \in Tasks :
       (/\ task[t1].pc = "done" /\ task[t2].pc = "done"
        /\ task[t1].event = task[t2].event
        /\ task[t1].result.kind = "ok" /\ task[t2].result.kind = "ok")
         => task[t1].result.id = task[t2].result.id

\* C3: when an invocation commits under the room's state lock, the soft-fail
\* decision it made is the one the room's current state gives at that moment:
\* nobody changed the current state between its read and its commit.
C3_CommitSeesCurrentState ==
  \A t \in Tasks :
    task[t].pc = "up_commit"
      => task[t].soft_fail = ~auth_check(task[t].target, get_auth_events(task[t].target))

Marks(u) == MembershipOf(membership, u)
\* C4: after any sequence of update_membership and forget calls every user has
\* at most one of the marks joined, invited, left for the room; a Join ends with
\* joined alone, an Invite that is carried out with invited alone, a Leave or a
\* Ban with left alone.
C4_MembershipExclusive ==
  /\ \A u \in Users : Cardinality(Marks(u)) <= 1
  /\ (last_call.op = "update_membership" /\ last_call.result = "ok")
       => /\ last_call.membership = "join" => Marks(last_call.user) = {"joined"}
          /\ last_call.membership = "invite" => Marks(last_call.user) = {"invited"}
          /\ last_call.membership \in {"leave", "ban"} => Marks(last_call.user) = {"left"}
C4_Witness ==
  /\ last_call.op = "update_membership" /\ last_call.result = "ok"
  /\ last_call.membership = "ban"
  /\ last_call.before = {"joined"}
  /\ Marks(last_call.user) = {"left"}
  /\ \E u \in Users : Marks(u) = {"invited"}

\* C5: no event the verifier found Invalid under the keys known at that moment is
\* stored as an outlier or is in the timeline, whether it came in the request or
\* was fetched for it.
C5_NoInvalidStored ==
  \A e \in EventIds :
    (outlierpdu[e] # None \/ InTimeline(e)) => admitted_verdict[e] \in {"All", "Signatures"}
C5_Witness ==
  /\ task[1].pc = "done"
  /\ task[1].input.form = "Invalid"
  /\ task[1].result = Err("Signature verification failed")
  /\ task[1].event \in task[1].ran
  /\ outlierpdu[task[1].event] = None /\ ~InTimeline(task[1].event)

DropErrors ==
  {"Signature verification failed", "Event was redacted and we already knew about it",
   "Event is not a valid PDU."}
\* C6: when the call drops the incoming event for a failed signature check, as a
\* duplicate after redaction or as not a valid PDU, the bad-event ratelimiter
\* holds for its id the time of the call and one try more than before.
C6_DropRatelimited ==
  (task[1].pc = "done" /\ task[1].snap.taken /\ task[1].result.kind = "err"
   /\ task[1].result.err \in DropErrors)
    => bad_event_ratelimiter[task[1].event] =
         [time |-> task[1].snap.now, tries |-> task[1].snap.rl[task[1].event].tries + 1]

\* C7: a repeat of a call that failed on a corrupted signature, made less than
\* five minutes after it, returns without the verifier running on the event.
C7_RepeatSkipsVerifier ==
  (/\ SecondCallDone
   /\ task[1].input.form = "Invalid"
   /\ task[1].prev_result = Err("Signature verification failed")
   /\ task[1].snap.now - task[1].prev_snap.now < 5 * 60)
    => task[1].event \notin task[1].ran

\* min(5 minutes * tries^2, 24 hours), in seconds
MinWait(tries) ==
  IF 5 * 60 * tries * tries < 24 * 60 * 60 THEN 5 * 60 * tries * tries ELSE 24 * 60 * 60
\* C8: a ratelimiter check skips an id with entry (t, tries) exactly while
\* now - t < min(5 minutes * tries^2, 24 hours); the window is the 24 hours
\* exactly from tries = 17 on.
C8_BackoffWindow ==
  probe.checked =>
    /\ probe.min_wait = MinWait(probe.entry.tries)
    /\ probe.skipped <=> (probe.at - probe.entry.time < MinWait(probe.entry.tries))
    /\ (probe.min_wait < 5 * 60 * probe.entry.tries * probe.entry.tries) <=> (probe.entry.tries >= 17)
    /\ probe.entry.tries >= 17 => probe.min_wait = 24 * 60 * 60
C8_Witness ==
  /\ probe.checked
  /\ probe.entry.tries = 17
  /\ probe.at - probe.entry.time = 24 * 60 * 60
  /\ ~probe.skipped

Grows(old, new, t) == new = old \/ new = [time |-> t, tries |-> old.tries + 1]
\* C9: every step leaves a ratelimiter entry alone or sets it to the time of the
\* step and one try more (1 when there was none); none removes an entry or lowers
\* its tries.
C9_EntriesOnlyGrow ==
  [][/\ \A id \in EventIds : Grows(bad_event_ratelimiter[id], bad_event_ratelimiter'[id], now')
     /\ Grows(bad_signature_ratelimiter, bad_signature_ratelimiter', now')]_vars
C9_Witness ==
  /\ bad_event_ratelimiter["p"] = [time |-> 5 * 60, tries |-> 2]
  /\ bad_signature_ratelimiter.tries >= 1

\* C10: a call whose event is soft-failed returns "Event has been soft failed",
\* the event carries the soft-fail mark, and a soft-failed event is not in the
\* room's timeline.
C10_SoftFailedNotInTimeline ==
  /\ \A t \in Tasks :
       (task[t].pc = "done" /\ task[t].result = Err("Event has been soft failed"))
         => task[t].event \in softfailed
  /\ \A e \in softfailed : ~InTimeline(e)

SoftFailError == Err("Event has been soft failed")
\* the step soft-fails e
SoftFails(e) == e \notin softfailed /\ e \in softfailed'
\* the step that soft-fails e is made for a prev event of the call's event
SoftFailsAsPrev(e) == \E t \in Tasks : task[t].pc = "up_commit" /\ task[t].target = e /\ task[t].for_prev

\* C11 as stated: the step that soft-fails an event, incoming or prev event,
\* leaves the bad-event ratelimiter entry of that event as it was.
C11_SoftFailNeverRatelimited ==
  [][\A e \in EventIds : SoftFails(e) => bad_event_ratelimiter'[e] = bad_event_ratelimiter[e]]_vars

\* C11: the step that soft-fails the incoming event of a call leaves the whole
\* bad-event ratelimiter as it was; the step that soft-fails a prev event in the
\* prev-event loop sets that event's entry to (now, tries + 1) and no other.
C11_SoftFailRatelimitsPrevOnly ==
  [][\A e \in EventIds : SoftFails(e) =>
       IF SoftFailsAsPrev(e)
       THEN bad_event_ratelimiter' =
              [bad_event_ratelimiter EXCEPT ![e] = [time |-> now, tries |-> @.tries + 1]]
       ELSE bad_event_ratelimiter' = bad_event_ratelimiter]_vars
C11_Witness ==
  \E t \in Tasks :
    /\ task[t].pc = "done" /\ task[t].event = "m" /\ task[t].result = SoftFailError
    /\ "m" \in softfailed
    /\ bad_event_ratelimiter["m"] = NoEntry

\* C12: no event that carries the soft-fail mark is among the room's forward
\* extremities, whatever was admitted before and after it, descendants of the
\* event included.
C12_SoftFailedNeverExtremity == \A e \in softfailed : e \notin forward_extremities

\* the step is the start of a call (SpecSeq: of task 1)
CallStarts == calls' = calls + 1
\* everything the handler stores, the ratelimiters included
stores == <<timeline, outlierpdu, softfailed, forward_extremities, referenced, current_state,
            pdu_shortstatehash, pdu_state, bad_event_ratelimiter, bad_signature_ratelimiter,
            signing_keys, roomid_federationhandletime, roomid_mutex_state, admitted_verdict>>
AclError == Err("Server was denied by room ACL")
\* the prev and auth events of e are in the timeline
AncestryInTimeline(e) == \A x \in Ancestors[e] \ {e} : InTimeline(x)
\* the step in which a call returns
CallEnds == task'[1].pc = "done" /\ (CallStarts \/ task[1].pc /= "done")
\* the call that has ended followed a call of evil.test that the ACL refused
AfterDenied ==
  /\ task[1].pc = "done"
  /\ task[1].prev_input.origin = "evil.test" /\ task[1].prev_result = AclError
  /\ task[1].input = BaseRequest(task[1].event)

\* C13: the room's ACL allows a.test only.  A call of evil.test for the known,
\* enabled room ends at once with the Forbidden error "Server was denied by room
\* ACL" and changes none of the stores; a well-formed call of a.test that follows
\* it, the room enabled throughout, for an event whose ancestry is in the timeline
\* appends the event to the timeline and returns its pdu_id.
C13_AclDeniedNoMutation ==
  [][/\ (CallStarts /\ task'[1].input.origin = "evil.test" /\ task'[1].input.room = "r1" /\ ~disabled)
          => /\ task'[1].pc = "done"
             /\ task'[1].result = AclError
             /\ ErrorKind(task'[1].result.err) = "Forbidden"
             /\ UNCHANGED stores
     /\ (CallEnds /\ (AfterDenied /\ ~task[1].snap.disabled /\ ~disabled
                        /\ AncestryInTimeline(task[1].event))')
          => (task[1].result = Ok(Len(timeline)) /\ timeline[Len(timeline)] = task[1].event)']_vars
C13_Witness ==
  /\ AfterDenied
  /\ task[1].event = "b"
  /\ task[1].result = Ok(4)
  /\ timeline = <<"c", "acl", "j", "b">>

RoomUnknownError == Err("Room is unknown to this server")
\* C14: a call for a room the server does not know ends at once with the NotFound
\* error, a call for the known room while its federation is disabled with the
\* Forbidden error; neither changes any of the stores, the ratelimiters included.
C14_UnknownOrDisabledNoMutation ==
  [][/\ (CallStarts /\ task'[1].input.room = "r0")
          => /\ task'[1].pc = "done"
             /\ task'[1].result = RoomUnknownError
             /\ ErrorKind(task'[1].result.err) = "NotFound"
             /\ UNCHANGED stores
     /\ (CallStarts /\ task'[1].input.room = "r1" /\ disabled)
          => /\ task'[1].pc = "done"
             /\ task'[1].result = DisabledError
             /\ ErrorKind(task'[1].result.err) = "Forbidden"
             /\ UNCHANGED stores]_vars
C14_Witness ==
  /\ task[1].pc = "done"
  /\ task[1].snap.disabled
  /\ task[1].result = DisabledError
  /\ task[1].prev_result = Err("Signature verification failed")
  /\ StoresAsFound(task[1].snap)

Stored(e) == outlierpdu[e] # None \/ InTimeline(e)
\* C15: every event that is stored, as an outlier or in the timeline, has all
\* its auth events and all its prev events stored.  (Nothing is ever removed
\* from the stores, so this is the same as: they were stored when it was
\* admitted.)
C15_AncestryStored ==
  \A e \in EventIds :
    Stored(e) => \A x \in SeqToSet(Pdu[e].auth_events) \cup SeqToSet(Pdu[e].prev_events) : Stored(x)

\* the state after a fork event that follows j
AfterFork(e) == [InitialState EXCEPT ![ShortStateKey(e)] = e]
Quiet == \A t \in Tasks : task[t].pc \in {"idle", "done"}
PrevId == Head(task[1].sorted)
PrevReady ==
  /\ task[1].pc = "prev_loop" /\ task[1].sorted # <<>>
  /\ ~disabled
  /\ ~backing_off(bad_event_ratelimiter[PrevId], now)
  /\ PrevId \in task[1].info
  /\ ~(Pdu[PrevId].origin_server_ts < Pdu[first_pdu_in_room].origin_server_ts)
Task1Steps == task'[1] # task[1]
\* the step hands the prev event to upgrade_outlier_to_timeline_pdu
PrevProcessed == task'[1].pc = "up_pre" /\ task'[1].target = PrevId
Bumped(x) == bad_event_ratelimiter'[x] = [time |-> now, tries |-> bad_event_ratelimiter[x].tries + 1]
OnlyBumps(x) == bad_event_ratelimiter' = [bad_event_ratelimiter EXCEPT ![x] = [time |-> now, tries |-> @.tries + 1]]
Promoting == task[1].for_prev /\ task[1].pc \in {"up_pre", "up_lock", "up_commit"}
\* the fetch of the prev events: every prev event is stored afterwards or is the
\* one whose entry was bumped or that was in backoff; the call goes on
FetchIsolated ==
  (task[1].pc = "fetch_prev" /\ Task1Steps) =>
    /\ task'[1].pc = "prev_loop"
    /\ \A x \in SeqToSet(Pdu[task[1].event].prev_events) :
         \/ outlierpdu'[x] # None \/ InTimeline(x)
         \/ Bumped(x) \/ backing_off(bad_event_ratelimiter[x], now)
    /\ \A x \in EventIds : bad_event_ratelimiter'[x] # bad_event_ratelimiter[x] => outlierpdu'[x] = None
\* the promotion of a prev event: the call goes on; only the entry of the
\* promoted event changes, and only with an error counted
PromotionIsolated ==
  (Promoting /\ Task1Steps) =>
    /\ task'[1].pc \in {"up_lock", "up_commit", "prev_loop"}
    /\ \/ bad_event_ratelimiter' = bad_event_ratelimiter
       \/ (OnlyBumps(task[1].target) /\ task'[1].errors = task[1].errors + 1)

Ended(p) == proc[p].ended /= None
Waiting(p) == Active(p) /\ Instr(p).op = "acq"
Blocked(p) == Waiting(p) /\ ~Available(p, LockOf(p, Instr(p).lock), Instr(p).mode)
HeldNames(p) == {h.lock.name : h \in proc[p].held}

\* C18: once an operation has ended, by running to its end, by an early or
\* error return, or by cancellation at a suspension point, it holds none of the
\* locks, guards or permits it acquired.
C18_ReleasedOnEveryExit == \A p \in Procs : Ended(p) => proc[p].held = {}

\* an admission was cancelled while it held the room's state lock, a key fetch
\* returned early while it held its permit, and both are free again
C18_Witness ==
  \E p, q \in Procs :
    /\ proc[p].ended = "cancelled" /\ "roomid_mutex_state" \in proc[p].dropped
    /\ proc[q].ended = "returned" /\ "permit" \in proc[q].dropped
    /\ \A r \in Procs : HeldNames(r) \cap {"roomid_mutex_state", "permit"} = {}

\* the place of a lock in the acquisition order, 0 when the order does not name it
Rank(name, mode) ==
  CASE name = "roomid_mutex_state" -> 1
    [] name = "stateres_mutex" -> 2
    [] name \in {"bad_event_ratelimiter", "bad_signature_ratelimiter"} /\ mode = "w" -> 3
    [] name = "pub_key_map" /\ mode = "w" -> 4
    [] OTHER -> 0
InOrder(p) ==
  \A h \in proc[p].held :
    Rank(h.lock.name, h.mode) = 0 \/ Rank(Instr(p).lock, Instr(p).mode) = 0
      \/ Rank(h.lock.name, h.mode) <= Rank(Instr(p).lock, Instr(p).mode)
NoDeadlock == (\E p \in Procs : Active(p)) => (\E p \in Procs : Active(p) /\ ~Blocked(p))

\* C19: a task that waits for a lock of the order (room state lock, state-res
\* mutex, ratelimiter write lock, key-map write lock) holds no lock that comes
\* later in it, and concurrent admissions and key fetches never all wait for
\* each other.
C19_LockOrder == (\A p \in Procs : Waiting(p) => InOrder(p)) /\ NoDeadlock

\* an admission holding the room's state lock waits for the state-res mutex that
\* another admission holds without the room's lock
C19_Witness ==
  \E p, q \in Procs :
    /\ Blocked(p) /\ Instr(p).lock = "stateres_mutex" /\ "roomid_mutex_state" \in HeldNames(p)
    /\ Active(q) /\ HeldNames(q) = {"stateres_mutex"}

PermitHolders(o) ==
  {p \in Procs : \E h \in proc[p].held : h.lock.name = "permit" /\ h.lock.origin = o}
AtPermit(p) == Waiting(p) /\ Instr(p).lock = "permit"

\* C20: at most one call per origin holds that origin's permit, at most one
\* semaphore is ever made for an origin, and a call waiting for its permit is
\* held up only by a call for the same origin.
C20_SerialPerOrigin ==
  /\ \A o \in Origins : Cardinality(PermitHolders(o)) <= 1 /\ semaphores_made[o] <= 1
  /\ \A p \in Procs : (AtPermit(p) /\ PermitHolders(proc[p].origin) = {}) => ~Blocked(p)

\* two first calls for one origin both took the creation path; one sends key
\* requests, the other waits for the permit of the same, single semaphore
C20_Witness ==
  \E p, q \in Procs :
    /\ p /= q /\ proc[p].origin = proc[q].origin /\ proc[p].via_write /\ proc[q].via_write
    /\ Active(p) /\ proc[p].pc = 7 /\ "permit" \in HeldNames(p)
    /\ Blocked(q) /\ AtPermit(q) /\ proc[q].sem = proc[p].sem
    /\ semaphores_made[proc[p].origin] = 1

\* ------------------------------------------------------------ signing key fetch
\* a request is sent in this step
KeyRequestSent == Len(kf'.call.sent) = Len(kf.call.sent) + 1
ConfiguredOrder ==
  IF kf.query_trusted_key_servers_first THEN <<"notary1", "notary2", "origin">>
  ELSE <<"origin", "notary1", "notary2">>

\* C21: the requests of a call go to the sources in the configured order,
\* notaries in list order then the origin when query_trusted_key_servers_first
\* is set and the origin then the notaries otherwise, and a request is sent
\* only while a required key id is still unknown.
C21_SourcesInOrderUntilSufficient ==
  [][KeyRequestSent =>
       /\ kf'.call.sent = SubSeq(ConfiguredOrder, 1, Len(kf'.call.sent))
       /\ ~(kf.call.signature_ids \subseteq kf.call.result)
       /\ (kf'.call.signature_ids \subseteq kf'.call.result) => kf'.call.pc = "done"]_vars
\* origin first: the origin gave one of two required ids, the first notary the
\* other, and the second notary was not asked
C21_Witness ==
  /\ ~kf.query_trusted_key_servers_first
  /\ kf.call.pc = "done" /\ kf.call.ret = "ok"
  /\ kf.call.signature_ids = KeyIds
  /\ kf.call.sent = <<"origin", "notary1">>

\* C22: a call that asked every source and still lacks a required key id sets
\* the ratelimiter entry of the ids to (now, 1), or to (now, tries + 1) when
\* there was one, and returns "Failed to find public key"; a call that returns
\* keys returns all the required ids.
C22_TotalFailureBacksOff ==
  [][/\ (kf.call.pc = "failed" /\ kf'.call.pc = "done") =>
          /\ kf'.call.ret = KeyFetchFailed
          /\ kf'.bad_signature_ratelimiter =
               [kf.bad_signature_ratelimiter EXCEPT
                  ![kf.call.signature_ids] = [time |-> kf.now, tries |-> @.tries + 1]]
     /\ (kf'.call.pc = "failed") =>
          (Len(kf'.call.sent) = Len(ConfiguredOrder)
             /\ ~(kf'.call.signature_ids \subseteq kf'.call.result))
     /\ (kf'.call.pc = "done" /\ kf'.call.ret = "ok") =>
          kf'.call.signature_ids \subseteq kf'.call.result]_vars
\* the second total failure, after the backoff of the first has passed
C22_Witness ==
  /\ kf.call.pc = "done" /\ kf.call.ret = KeyFetchFailed
  /\ Len(kf.call.sent) = 3
  /\ kf.bad_signature_ratelimiter[kf.call.signature_ids] = [time |-> 5 * 60, tries |-> 2]

\* the statements of an admission between stateres_mutex.lock() and drop(lock):
\* state_res::resolve over the prev events' states, and against the current state
ResolverSteps == {5, 10, 11}
Resolving(p) == Active(p) /\ proc[p].kind = "admit" /\ proc[p].pc \in ResolverSteps

\* C23: at most one task, whatever its room, is between taking and dropping the
\* state-res mutex, where both resolver calls are made; a task holds the mutex
\* exactly there, and never at a suspension point.
C23_ResolverSerialized ==
  /\ Cardinality({p \in Procs : Resolving(p)}) <= 1
  /\ \A p \in Procs : Resolving(p) <=> "stateres_mutex" \in HeldNames(p)
  /\ \A p \in Procs : (Active(p) /\ "stateres_mutex" \in HeldNames(p)) => ~Instr(p).await
\* an admission in r1 resolves against the current state under r1's lock while an
\* admission in r2, holding r2's lock, waits for the mutex
C23_Witness ==
  \E p, q \in Procs :
    /\ Resolving(p) /\ proc[p].pc = 10 /\ proc[p].room = "r1"
    /\ proc[q].room = "r2" /\ "roomid_mutex_state" \in HeldNames(q)
    /\ Blocked(q) /\ Instr(q).lock = "stateres_mutex"

\* ------------------------------------------------------------- invites and joins
\* the step is a call of update_membership for u with membership m
UpdateStep(u, m) ==
  /\ ops' = ops + 1 /\ last_call'.at = ops'
  /\ last_call'.op = "update_membership" /\ last_call'.user = u /\ last_call'.membership = m

\* C24: an Invite whose sender is in the recipient's ignored-user list returns
\* success and changes nothing: the recipient's marks and stored invite, the other
\* users' marks, the joined count, once_joined and the account data stay as they
\* were.
C24_IgnoredInviteSkipped ==
  [][\A u \in Users :
       (UpdateStep(u, "invite") /\ account_data[u].ignored = "sender")
         => /\ last_call'.result = "ignored"
            /\ UNCHANGED <<membership, joined_count, once_joined, account_data>>]_vars
\* a joined user was invited by an ignored sender and is still joined
C24_Witness ==
  /\ last_call.op = "update_membership" /\ last_call.membership = "invite"
  /\ last_call.result = "ignored"
  /\ last_call.before = {"joined"}
  /\ Marks(last_call.user) = {"joined"}
  /\ joined_count = 1

\* the step copies room tags or the direct-chat flag of u
Copies(u) ==
  \/ account_data'[u].tag = "copied" /\ account_data[u].tag /= "copied"
  \/ account_data'[u].direct = "updated" /\ account_data[u].direct /= "updated"
\* C25: u's tags and direct-chat flag are copied only by a Join of u to a room
\* with a predecessor that u never joined before; such a Join copies whatever
\* valid tag and direct-chat data there is and marks u as once joined; once
\* joined stays, and no later call copies for u.
C25_CopiedOnFirstJoinOnly ==
  [][\A u \in Users :
       /\ Copies(u) => (UpdateStep(u, "join") /\ last_call'.predecessor /\ u \notin once_joined)
       /\ (UpdateStep(u, "join") /\ last_call'.predecessor /\ u \notin once_joined)
            => /\ u \in once_joined'
               /\ account_data[u].tag = "valid" => account_data'[u].tag = "copied"
               /\ (account_data[u].direct = "valid" /\ account_data[u].tag /= "invalid")
                    => account_data'[u].direct = "updated"
       /\ u \in once_joined => (u \in once_joined' /\ ~Copies(u))]_vars
\* a user whose tags were copied on the first join left and joined the room
\* again, the room still naming its predecessor
C25_Witness ==
  /\ last_call.op = "update_membership" /\ last_call.membership = "join"
  /\ last_call.predecessor /\ last_call.result = "ok"
  /\ last_call.before = {"left"}
  /\ account_data[last_call.user].tag = "copied"

\* ----------------------------------------------------- federation handle time
\* the calls that are promoting an event: between the insert before
\* upgrade_outlier_to_timeline_pdu and the remove after it
PromotingTasks == {t \in Tasks : task[t].pc \in {"up_pre", "up_lock", "up_commit"}}

\* C26: while some call promotes an event of the room the federation handle
\* time map has an entry for the room that names an event being promoted, and
\* when no call promotes there is no entry.
C26_HandleTimeTracksPromotion ==
  /\ PromotingTasks /= {} =>
       /\ roomid_federationhandletime /= NoHandle
       /\ \E t \in PromotingTasks : roomid_federationhandletime.event = task[t].target
  /\ PromotingTasks = {} => roomid_federationhandletime = NoHandle

\* ------------------------------------------------------- the order of the checks
\* C27: a call for an event that is in the timeline fails with the room-unknown
\* error for an unknown room, else with the disabled error while federation of
\* the room is disabled, else with the ACL error for a denied origin, and only
\* otherwise returns the event's pdu_id; in each case it returns at once.
C27_ChecksBeforeIdempotency ==
  [][(CallStarts /\ get_pdu_id(task'[1].input.event) /= 0) =>
       /\ task'[1].pc = "done"
       /\ task'[1].result =
            IF task'[1].input.room = "r0" THEN RoomUnknownError
            ELSE IF disabled THEN DisabledError
            ELSE IF task'[1].input.origin = "evil.test" THEN AclError
            ELSE Ok(get_pdu_id(task'[1].input.event))]_vars
\* evil.test asked for j, which is in the timeline, and was refused by the ACL;
\* it asks again after federation of the room was disabled
C27_Witness ==
  /\ task[1].pc = "done" /\ task[1].input.event = "j" /\ task[1].input.origin = "evil.test"
  /\ task[1].prev_input = task[1].input
  /\ task[1].prev_result = AclError
  /\ task[1].result = DisabledError
  /\ InTimeline("j")

\* ------------------------------------------------------ the room's create event
Creates(e) == {a \in SeqToSet(Pdu[e].auth_events) : Pdu[a].kind = "create"}
\* C28: every stored event other than a create event names the room's create
\* event, and no other create event, among its auth events.
C28_OriginalCreateRequired ==
  \A e \in EventIds :
    ((outlierpdu[e] /= None \/ InTimeline(e)) /\ Pdu[e].kind /= "create") => Creates(e) = {"c"}

\* ------------------------------------------------------------ the replay order
\* C29: an event is passed to handle_outlier_pdu only after each of its auth
\* events that was fetched in the same walk.
C29_ParentsBeforeChildren ==
  \A i \in 1..Len(wk.handled) :
    \A a \in SeqToSet(wk.auth_events[wk.handled[i]]) \cap wk.events_all :
      \E j \in 1..(i - 1) : wk.handled[j] = a

\* ------------------------------------------------------- the prev event limit
\* C30: no more than max_fetch_prev_events events have their prev events
\* followed in one traversal, and an event met at the limit is a graph node
\* without edges and is not promoted by the call.
C30_PrevFetchCapped ==
  /\ pf.amount <= pf.max_fetch_prev_events
  /\ \A id \in pf.at_limit : pf.edges[id] = {} /\ id \notin pf.promoted
\* the second half on its own
AtLimitNotPromoted == \A id \in pf.at_limit : pf.edges[id] = {} /\ id \notin pf.promoted
\* the count that the comparison does keep
AmountWithinLimitPlusOne == pf.amount <= pf.max_fetch_prev_events + 1

\* ------------------------------------------------------- after five failures
\* C31: once five promotions of prev events have failed in a call, no further
\* prev event is promoted by it: each remaining prev event that is not backed
\* off from gets its ratelimiter entry inserted or incremented and the loop
\* goes on, and after the last one the incoming event is handed to the
\* promotion.
C31_AfterFiveErrors ==
  [][(task[1].pc = "prev_loop" /\ task[1].errors >= 5 /\ Task1Steps) =>
       /\ ~(task'[1].pc = "up_pre" /\ task'[1].for_prev)
       /\ task[1].sorted /= <<>> =>
            /\ task'[1].pc = "prev_loop" /\ task'[1].sorted = Tail(task[1].sorted)
            /\ IF backing_off(bad_event_ratelimiter[PrevId], now)
               THEN UNCHANGED bad_event_ratelimiter
               ELSE OnlyBumps(PrevId)
       /\ task[1].sorted = <<>> =>
            /\ task'[1].pc = "up_pre" /\ task'[1].target = task[1].event /\ ~task'[1].for_prev
            /\ UNCHANGED bad_event_ratelimiter]_vars
C31_Witness ==
  /\ task[1].pc = "up_pre" /\ ~task[1].for_prev /\ task[1].target = "w"
  /\ task[1].errors = 5
  /\ bad_event_ratelimiter["x5"] = [time |-> 0, tries |-> 1]
  /\ outlierpdu["x5"] = "full" /\ "x5" \notin pdu_shortstatehash

\* ---------------------------------------------------- the forward extremities
\* a promotion of task t commits without a soft fail
Commits(t) == task[t].pc = "up_commit" /\ task'[t].pc /= "up_commit" /\ ~task[t].soft_fail
\* the leaves the commit of e stores: those read under the lock, without the
\* prev events of e and without the events already referred to, and e
LeavesAsComputed ==
  \A t \in Tasks : Commits(t) =>
    forward_extremities' =
      ((forward_extremities \ SeqToSet(Pdu[task[t].target].prev_events)) \ referenced) \cup {task[t].target}
\* no update is lost: an event of the timeline that no stored event refers to
\* is a leaf
NoLeafLost == \A i \in 1..Len(timeline) : timeline[i] \notin referenced => timeline[i] \in forward_extremities
\* no leaf is a prev event of an event of the timeline
NoLeafIsPrev ==
  \A x \in forward_extremities : \A i \in 1..Len(timeline) : x \notin SeqToSet(Pdu[timeline[i]].prev_events)
LeavesStep == [][LeavesAsComputed]_vars
\* C32: a promotion that is not soft-failed stores the leaves read under the
\* state lock without the event's prev events and without the events already
\* referred to, with the event added; under every interleaving no leaf is lost
\* and no stored leaf is a prev event of an event of the timeline.
C32_ExtremitiesAfterPromotion == [][LeavesAsComputed /\ NoLeafLost' /\ NoLeafIsPrev']_vars

\* ------------------------------------------ the auth check at the event's state
StateAuthError == "Event has failed auth check with state at the event."
\* the state st bans the sender of e
BannedAt(st, e) ==
  LET m == StateGet(st, <<"member", Pdu[e].sender>>) IN m # None /\ Pdu[m].membership = "ban"
\* the promotion of the incoming event ends with the error of the auth check
\* against the state at the event
FailsStateAuth == task[1].pc = "up_pre" /\ ~task[1].for_prev /\ task'[1].result = Err(StateAuthError)
\* C33: an event that fails the auth check against the state at the event ends
\* its promotion with an error and nothing else: it is not appended, gets no
\* soft-fail mark and no state snapshot, the leaves and the current state stay
\* as they are and the event stays an outlier; so no event whose state bans its
\* sender is ever in the timeline or marked.
C33_StateAuthFailureIsFatal ==
  [][/\ FailsStateAuth =>
          /\ UNCHANGED <<timeline, softfailed, forward_extremities, referenced, current_state,
                         pdu_shortstatehash, pdu_state>>
          /\ outlierpdu'[task[1].target] # None /\ ~InTimeline(task[1].target)'
          /\ task'[1].pc = "done"
     /\ \A e \in EventIds :
          ((\E i \in 1..Len(timeline') : timeline'[i] = e) \/ e \in softfailed' \/ e \in pdu_shortstatehash')
            => ~BannedAt(pdu_state'[e], e)]_vars
C33_Witness ==
  /\ task[1].pc = "done" /\ task[1].event = "y" /\ task[1].result = Err(StateAuthError)
  /\ InTimeline("b") /\ ~InTimeline("y") /\ "y" \notin softfailed
  /\ outlierpdu["y"] # None /\ forward_extremities = {"b"}

\* ------------------------------------------------- the keys of a join response
\* C34: when the source queried first has supplied the keys of every server
\* that was missing from the cache, the second source is not queried.
C34_SecondSourceSkipped ==
  (jk.asked /= <<>> /\ jk.servers \subseteq jk.got_first) => Len(jk.asked) = 1
\* both sources are always queried, whatever the first supplied
BothSourcesQueried == jk.pc = "done" /\ jk.asked /= <<>> => Len(jk.asked) = 2

\* --------------------------------------------------- key backoff and origins
\* C35: a key fetch fails fast for an origin only if an earlier fetch for that
\* origin has failed; the failure for one origin never makes a call for
\* another origin fail fast, whatever key ids the two use.
C35_BackoffPerOrigin ==
  kf.call.ret = KeyFetchBackoff => kf.call.origin \in kf.failed
\* what the lookup does keep apart: the lists of key ids
BackoffPerKeyIds ==
  kf.call.ret = KeyFetchBackoff => kf.bad_signature_ratelimiter[kf.call.signature_ids].tries > 0

\* --------------------------------------------------------- leaves of the room
\* C36: a room with events in its timeline always has a forward extremity,
\* after promotions that end in a soft fail and after promotions whose prev
\* events cover all the leaves as well.
C36_ExtremitiesNeverEmpty == timeline /= <<>> => forward_extremities /= {}

\* ------------------------------------------------------- graphs with cycles
\* the stacks of the walk and of the traversal empty and both return
TraversalsTerminate == <>(WalkOver(wk) /\ pf.pc = "incoming")
\* the events of the traversal's graph that lie on a cycle of prev_events
RECURSIVE PrevClosure(_, _)
PrevClosure(S, k) ==
  IF k = 0 THEN S ELSE PrevClosure(S \cup UNION {pf.edges[x] : x \in S}, k - 1)
OnPrevCycle == {n \in PrevIds : n \in PrevClosure(pf.edges[n], MaxPrevIds)}
\* the call goes on to the incoming event although its prev events have a cycle
CycleAccepted == pf.pc = "incoming" /\ OnPrevCycle /= {}
\* C37: the walk of fetch_and_handle_outliers and the traversal of
\* fetch_unknown_prev_events empty their stacks and return for every graph a
\* peer can serve, cycles and self-references included, and a cycle among the
\* prev events is refused: the call does not go on to admit the incoming event.
C37_CyclesTerminateAndAreRefused == TraversalsTerminate /\ [](~CycleAccepted)
NoCycleAccepted == ~CycleAccepted

\* ------------------------------------------------------ requests to the origin
\* C38: within one call of fetch_and_handle_outliers every event id is asked
\* of the origin at most once, however many of the requested events list it
\* among their auth events and whether the request succeeded or failed.
C38_RequestedAtMostOnce ==
  \A i, k \in 1..Len(wk.requests) : wk.requests[i] = wk.requests[k] => i = k
\* within the walk for one requested id no id is asked twice
OncePerWalk ==
  [][\A x \in WalkIds :
       (Len(wk'.requests) = Len(wk.requests) + 1 /\ wk'.requests[Len(wk'.requests)] = x)
         => x \notin wk.events_all /\ x \notin wk.backed_off]_vars

\* ------------------------------------------------ update_membership and errors
\* C39: a call of update_membership that returns an error leaves the membership
\* indexes as they were, the once-joined marker included, so that a later join
\* is still the first one.
C39_ErrorChangesNothing ==
  [][(last_call'.at = ops' /\ ops' = ops + 1 /\ last_call'.op = "update_membership"
        /\ last_call'.result = "err")
       => UNCHANGED <<membership, once_joined, joined_count>>]_vars
\* what an error does leave alone: the joined, invited and left marks and the count
ErrorKeepsMarks ==
  [][(last_call'.at = ops' /\ ops' = ops + 1 /\ last_call'.op = "update_membership"
        /\ last_call'.result = "err")
       => UNCHANGED <<membership, joined_count>>]_vars

\* ------------------------------------------------------------- cancellation
\* The future of handle_incoming_pdu is dropped at an await.  Nothing runs after
\* the await: what was written stays, the guard of the room's state lock is
\* dropped with the future, and the remove of lines 274-279 is not reached.
\* Under the lock the awaits are those of resolve_state, force_state and
\* append_incoming_pdu (lines 809-873): with forced the drop comes after
\* force_state has set the room's state and before the append.
Cancel(t, forced) ==
  LET me == task[t]
      e == me.target
      state_after == [me.state_at EXCEPT ![ShortStateKey(e)] = e]
  IN /\ me.pc \in {"fetch_prev", "prev_loop", "up_pre", "up_lock", "up_commit"}
     /\ forced => me.pc = "up_commit" /\ IsStateEvent(e)
     /\ current_state' = IF forced THEN resolve_state(state_after) ELSE current_state
     /\ roomid_mutex_state' = IF roomid_mutex_state = t THEN 0 ELSE roomid_mutex_state
     /\ task' = [task EXCEPT ![t].pc = "cancelled"]
     /\ UNCHANGED <<timeline, outlierpdu, softfailed, forward_extremities, referenced,
                    pdu_shortstatehash, pdu_state, bad_event_ratelimiter, bad_signature_ratelimiter,
                    signing_keys, roomid_federationhandletime, disabled, now, admitted_verdict,
                    calls, toggles, cvars, probe, lvars, xvars>>

\* one call after the other, each of which may be cancelled
NextCancel ==
  \/ HandlerStep({1}, FALSE)
  \/ \E forced \in BOOLEAN : Cancel(1, forced)
  \/ Return(1)
SpecCancel == Init /\ [][NextCancel]_vars

Cancelled == task[1].pc # "cancelled" /\ task'[1].pc = "cancelled"
\* C40: after a cancellation the outliers that were stored are still stored, the
\* timeline is as the completed appends left it, the room's leaves and its
\* current state are both as before the event's commit, and the handle-time
\* entry of the cancelled call is gone.
C40_CancellationKeepsPersistedOnly ==
  [][Cancelled =>
       /\ UNCHANGED <<outlierpdu, timeline>>
       /\ UNCHANGED <<forward_extremities, current_state>>
       /\ roomid_federationhandletime' = NoHandle]_vars
\* the parts of it that hold: stored outliers and the timeline stay, the lock is free
CancelKeepsStores ==
  [][Cancelled => UNCHANGED <<outlierpdu, timeline, forward_extremities>> /\ roomid_mutex_state' = 0]_vars
\* the parts that fail, each on its own
CancelClearsHandleTime == [][Cancelled => roomid_federationhandletime' = NoHandle]_vars
CancelKeepsStateWithLeaves == [][Cancelled => UNCHANGED <<forward_extremities, current_state>>]_vars

====
